---- MODULE Spec2Model ----
(***************************************************************************)
(* EWKB codec of rust-postgis: the readers (EwkbRead) and writers          *)
(* (EwkbWrite) of points, inline containers, typed-element containers,     *)
(* GeometryT and GeometryCollectionT, modelled over byte streams.          *)
(*                                                                         *)
(* Representation of machine values:                                       *)
(*   u8            a number in 0..255                                      *)
(*   u32           its four base-256 digits, most significant first        *)
(*   i32           an integer in -2^31 .. 2^31-1                           *)
(*   f64           its eight bytes (IEEE-754 bit pattern), most            *)
(*                 significant first; equality is equality of bit patterns *)
(*   Option<T>     << >> for None, <<v>> for Some(v)                       *)
(*   Vec<T>        a sequence                                              *)
(*   Result<T, E>  [ok |-> TRUE, val, rest] or [ok |-> FALSE, err, rest],  *)
(*                 rest being the reader after the call                    *)
(*   &mut R: Read  [buf |-> the bytes, pos |-> bytes consumed so far]      *)
(***************************************************************************)
EXTENDS Integers, Sequences, FiniteSets, TLC

VARIABLES
    raw,     \* the reader handed to read_ewkb: its bytes and its position
    target,  \* Some([T, P]): the type the last read_ewkb call was made on
    result,  \* Some(the Result of the last read_ewkb call)
    value,   \* Some([T, P, v]): the in-memory value handed to as_ewkb
    out,     \* the sink handed to write_ewkb
    wres,    \* Some(whether the last write_ewkb call returned Ok)
    hex,     \* Some(the String returned by the last to_hex_ewkb call)
    origin,  \* where the bytes or the value came from: "wire", "value", "decoded",
             \* "prefix", "overcount", "mixed", "concat"
    pc,      \* "stream", "read", "value", "written" or "rendered"; "loop" and
             \* "done" when the decoder is followed one loop iteration at a time
    loops    \* [frames |-> the loops the decoder is inside of, outermost first,
             \*  iters |-> the loop iterations begun so far]

vars == <<raw, target, result, value, out, wres, hex, origin, pc, loops>>

-----------------------------------------------------------------------------
(* Option, Result, bits *)

None == << >>

Some(x) == <<x>>

is_some(o) == Len(o) = 1

unwrap_or(o, d) == IF is_some(o) THEN o[1] ELSE d

Ok(v, r) == [ok |-> TRUE, val |-> v, rest |-> r]

Err(e, r) == [ok |-> FALSE, err |-> e, rest |-> r]

\* Error::Read(format!("error while reading: {:?}", e))
ErrIo == "Read: error while reading"

\* Error::Read(format!("Error reading generic geometry type - unsupported type id {}.", type_id))
ErrUnsupported == "Read: unsupported type id"

\* panic!("Not used for generic geometry type")
Panic == "panic: Not used for generic geometry type"

Reverse(s) == [i \in 1..Len(s) |-> s[Len(s) + 1 - i]]

\* bit k (0 = least significant) of byte b
Bit(b, k) == (b \div (2 ^ k)) % 2

RECURSIVE ByteOrFrom(_, _, _)
ByteOrFrom(a, b, k) ==
    IF k > 7 THEN 0
    ELSE (IF Bit(a, k) = 1 \/ Bit(b, k) = 1 THEN 2 ^ k ELSE 0) + ByteOrFrom(a, b, k + 1)

\* a | b on u32 words
WordOr(a, b) == [i \in 1..4 |-> ByteOrFrom(a[i], b[i], 0)]

\* the u32 with value n (n < 2^31 in the model)
U32(n) == <<(n \div 16777216) % 256, (n \div 65536) % 256, (n \div 256) % 256, n % 256>>

WordIsZero(w) == w = <<0, 0, 0, 0>>

\* w - 1 on a non-zero u32 word: one step of `for _ in 0..size`
WordDec(w) ==
    IF w[4] > 0 THEN <<w[1], w[2], w[3], w[4] - 1>>
    ELSE IF w[3] > 0 THEN <<w[1], w[2], w[3] - 1, 255>>
    ELSE IF w[2] > 0 THEN <<w[1], w[2] - 1, 255, 255>>
    ELSE <<w[1] - 1, 255, 255, 255>>

\* the i32 whose big-endian two's complement bytes are w
I32OfWord(w) ==
    (IF w[1] >= 128 THEN w[1] - 256 ELSE w[1]) * 16777216
        + w[2] * 65536 + w[3] * 256 + w[4]

\* the big-endian two's complement bytes of the i32 v
WordOfI32(v) ==
    <<(v \div 16777216) % 256, (v \div 65536) % 256, (v \div 256) % 256, v % 256>>

-----------------------------------------------------------------------------
(* Readers: std::io::Read on a byte slice, byteorder::ReadBytesExt *)

Reader(bytes) == [buf |-> bytes, pos |-> 0]

Remaining(r) == Len(r.buf) - r.pos

\* the ? operator on a Result: K continues with the value and the reader
\* after it, an Err is returned as it is
Try(res, K(_, _)) == IF res.ok THEN K(res.val, res.rest) ELSE res

\* Read::read_exact: n bytes or UnexpectedEof, converted by
\* From<std::io::Error> for Error into Error::Read
read_exact(r, n) ==
    IF Remaining(r) >= n
    THEN Ok([i \in 1..n |-> r.buf[r.pos + i]], [r EXCEPT !.pos = r.pos + n])
    ELSE Err(ErrIo, r)

read_i8(r) ==
    Try(read_exact(r, 1), LAMBDA b, rest : Ok(IF b[1] >= 128 THEN b[1] - 256 ELSE b[1], rest))

read_u32(r, is_be) ==
    Try(read_exact(r, 4), LAMBDA b, rest : Ok(IF is_be THEN b ELSE Reverse(b), rest))

read_i32(r, is_be) ==
    Try(read_exact(r, 4), LAMBDA b, rest : Ok(I32OfWord(IF is_be THEN b ELSE Reverse(b)), rest))

\* read_f64 taking the other byte order
read_f64_swapped(r, is_be) ==
    Try(read_exact(r, 8), LAMBDA b, rest : Ok(IF is_be THEN Reverse(b) ELSE b, rest))

read_f64(r, is_be) ==
    Try(read_exact(r, 8), LAMBDA b, rest : Ok(IF is_be THEN b ELSE Reverse(b), rest))

-----------------------------------------------------------------------------
(* Type-id flags *)

\* type_id & 0x20000000 == 0x20000000
has_srid(type_id) == Bit(type_id[1], 5) = 1

\* type_id & 0x80000000 == 0x80000000
has_z(type_id) == Bit(type_id[1], 7) = 1

\* type_id & 0x40000000 == 0x40000000
has_m(type_id) == Bit(type_id[1], 6) = 1

\* type_id & 0xff
kind_of(type_id) == type_id[4]

PointType == {"Point", "PointZ", "PointM", "PointZM"}

\* wkb_type_id with the M flag on the bit of the SRID flag
wkb_type_id_m_on_srid_bit(point_type, srid) ==
    WordOr(WordOr(IF is_some(srid) THEN <<32, 0, 0, 0>> ELSE <<0, 0, 0, 0>>,
                  IF point_type = "PointZ" \/ point_type = "PointZM"
                  THEN <<128, 0, 0, 0>> ELSE <<0, 0, 0, 0>>),
           IF point_type = "PointM" \/ point_type = "PointZM"
           THEN <<32, 0, 0, 0>> ELSE <<0, 0, 0, 0>>)

\* EwkbWrite::wkb_type_id
wkb_type_id(point_type, srid) ==
    WordOr(WordOr(IF is_some(srid) THEN <<32, 0, 0, 0>> ELSE <<0, 0, 0, 0>>,
                  IF point_type = "PointZ" \/ point_type = "PointZM"
                  THEN <<128, 0, 0, 0>> ELSE <<0, 0, 0, 0>>),
           IF point_type = "PointM" \/ point_type = "PointZM"
           THEN <<64, 0, 0, 0>> ELSE <<0, 0, 0, 0>>)

-----------------------------------------------------------------------------
(* Points *)

\* 0.0
F64Zero == <<0, 0, 0, 0, 0, 0, 0, 0>>

\* new_from_opt_vals filling a coordinate that is missing with NaN
new_from_opt_vals_nan(P, x, y, z, m, srid) ==
    CASE P = "Point"   -> [x |-> x, y |-> y, srid |-> srid]
      [] P = "PointZ"  -> [x |-> x, y |-> y,
                           z |-> unwrap_or(z, <<127, 248, 0, 0, 0, 0, 0, 0>>), srid |-> srid]
      [] P = "PointM"  -> [x |-> x, y |-> y,
                           m |-> unwrap_or(m, <<127, 248, 0, 0, 0, 0, 0, 0>>), srid |-> srid]
      [] P = "PointZM" -> [x |-> x, y |-> y,
                           z |-> unwrap_or(z, <<127, 248, 0, 0, 0, 0, 0, 0>>),
                           m |-> unwrap_or(m, <<127, 248, 0, 0, 0, 0, 0, 0>>), srid |-> srid]

\* Point::new_from_opt_vals, PointZ::..., PointM::..., PointZM::...
new_from_opt_vals(P, x, y, z, m, srid) ==
    CASE P = "Point"   -> [x |-> x, y |-> y, srid |-> srid]
      [] P = "PointZ"  -> [x |-> x, y |-> y, z |-> unwrap_or(z, F64Zero), srid |-> srid]
      [] P = "PointM"  -> [x |-> x, y |-> y, m |-> unwrap_or(m, F64Zero), srid |-> srid]
      [] P = "PointZM" -> [x |-> x, y |-> y, z |-> unwrap_or(z, F64Zero),
                           m |-> unwrap_or(m, F64Zero), srid |-> srid]

\* the z or the m read without moving the reader
read_opt_f64_lookahead(flag, r, is_be) ==
    IF flag THEN Try(read_f64(r, is_be), LAMBDA f, rest : Ok(Some(f), r))
    ELSE Ok(None, r)

\* `if flag { Some(read_f64(raw, is_be)?) } else { None }`
read_opt_f64(flag, r, is_be) ==
    IF flag THEN Try(read_f64(r, is_be), LAMBDA f, rest : Ok(Some(f), rest))
    ELSE Ok(None, r)

\* read_ewkb_body of the point types reading z and m only into a type that
\* has them
P_read_ewkb_body_modelled_only(P, r, is_be, type_id, srid) ==
    Try(read_f64(r, is_be), LAMBDA x, r1 :
    Try(read_f64(r1, is_be), LAMBDA y, r2 :
    Try(read_opt_f64(has_z(type_id) /\ P \in {"PointZ", "PointZM"}, r2, is_be),
        LAMBDA z, r3 :
    Try(read_opt_f64(has_m(type_id) /\ P \in {"PointM", "PointZM"}, r3, is_be),
        LAMBDA m, r4 :
    Ok(new_from_opt_vals(P, x, y, z, m, srid), r4)))))

\* read_ewkb_body of the point types taking an m that cannot be read as absent
P_read_ewkb_body_m_forgiven(P, r, is_be, type_id, srid) ==
    Try(read_f64(r, is_be), LAMBDA x, r1 :
    Try(read_f64(r1, is_be), LAMBDA y, r2 :
    Try(read_opt_f64(has_z(type_id), r2, is_be), LAMBDA z, r3 :
    IF read_opt_f64(has_m(type_id), r3, is_be).ok
    THEN Try(read_opt_f64(has_m(type_id), r3, is_be), LAMBDA m, r4 :
             Ok(new_from_opt_vals(P, x, y, z, m, srid), r4))
    ELSE Ok(new_from_opt_vals(P, x, y, z, None, srid), r3))))

\* impl_point_read_traits: read_ewkb_body of the four point types
P_read_ewkb_body(P, r, is_be, type_id, srid) ==
    Try(read_f64(r, is_be), LAMBDA x, r1 :
    Try(read_f64(r1, is_be), LAMBDA y, r2 :
    Try(read_opt_f64(has_z(type_id), r2, is_be), LAMBDA z, r3 :
    Try(read_opt_f64(has_m(type_id), r3, is_be), LAMBDA m, r4 :
    Ok(new_from_opt_vals(P, x, y, z, m, srid), r4)))))

-----------------------------------------------------------------------------
(* Containers, GeometryT, GeometryCollectionT: EwkbRead                    *)
(* A type is named by T (the point type P itself is "P") and its point     *)
(* type parameter P.                                                       *)

RECURSIVE read_ewkb(_, _, _)
RECURSIVE read_ewkb_body(_, _, _, _, _, _)
RECURSIVE LineStringT_read_points(_, _, _, _, _, _, _)
RECURSIVE PolygonT_read_rings(_, _, _, _, _, _, _)
RECURSIVE MultiPointT_read_points(_, _, _, _)
RECURSIVE multitype_read_items(_, _, _, _, _)
RECURSIVE GeometryCollectionT_read_geometries(_, _, _, _)

\* the struct literals $geotype::<P> { $itemname, srid }
LineStringT(points, srid) == [points |-> points, srid |-> srid]
PolygonT(rings, srid) == [rings |-> rings, srid |-> srid]
MultiPointT(points, srid) == [points |-> points, srid |-> srid]
MultiLineStringT(lines, srid) == [lines |-> lines, srid |-> srid]
MultiPolygonT(polygons, srid) == [polygons |-> polygons, srid |-> srid]
GeometryCollectionT(geometries, srid) == [geometries |-> geometries, srid |-> srid]

\* the enum GeometryT<P>
GeometryT(variant, geom) == [variant |-> variant, geom |-> geom]

\* `if type_id & 0x20000000 == 0x20000000 { srid = Some(read_i32(raw, is_be)?) }`
read_opt_srid(type_id, r, is_be) ==
    IF has_srid(type_id) THEN Try(read_i32(r, is_be), LAMBDA s, rest : Ok(Some(s), rest))
    ELSE Ok(None, r)

\* the loop of LineStringT::read_ewkb_body reading its points without the srid
LineStringT_read_points_nosrid(P, r, is_be, type_id, srid, size, points) ==
    IF WordIsZero(size) THEN Ok(points, r)
    ELSE Try(P_read_ewkb_body(P, r, is_be, type_id, None), LAMBDA p, rest :
             LineStringT_read_points(P, rest, is_be, type_id, srid,
                                     WordDec(size), Append(points, p)))

\* the loop of LineStringT::read_ewkb_body ending at the first point that
\* cannot be read
LineStringT_read_points_until_error(P, r, is_be, type_id, srid, size, points) ==
    IF WordIsZero(size) THEN Ok(points, r)
    ELSE IF ~P_read_ewkb_body(P, r, is_be, type_id, srid).ok THEN Ok(points, r)
    ELSE Try(P_read_ewkb_body(P, r, is_be, type_id, srid), LAMBDA p, rest :
             LineStringT_read_points(P, rest, is_be, type_id, srid,
                                     WordDec(size), Append(points, p)))

\* impl_read_for_point_container_type!(singletype LineStringT): the loop
LineStringT_read_points(P, r, is_be, type_id, srid, size, points) ==
    IF WordIsZero(size) THEN Ok(points, r)
    ELSE Try(P_read_ewkb_body(P, r, is_be, type_id, srid), LAMBDA p, rest :
             LineStringT_read_points(P, rest, is_be, type_id, srid,
                                     WordDec(size), Append(points, p)))

\* impl_read_for_point_container_type!(singletype LineStringT)
LineStringT_read_ewkb_body(P, r, is_be, type_id, srid) ==
    Try(read_u32(r, is_be), LAMBDA size, r1 :
    Try(LineStringT_read_points(P, r1, is_be, type_id, srid, size, << >>),
        LAMBDA points, r2 : Ok(LineStringT(points, srid), r2)))

\* the loop of PolygonT::read_ewkb_body ending at the end of the stream
PolygonT_read_rings_to_end(P, r, is_be, type_id, srid, size, rings) ==
    IF WordIsZero(size) \/ Remaining(r) = 0 THEN Ok(rings, r)
    ELSE Try(LineStringT_read_ewkb_body(P, r, is_be, type_id, srid), LAMBDA l, rest :
             PolygonT_read_rings(P, rest, is_be, type_id, srid,
                                 WordDec(size), Append(rings, l)))

\* impl_read_for_geometry_container_type!(singletype PolygonT ...): the loop
PolygonT_read_rings(P, r, is_be, type_id, srid, size, rings) ==
    IF WordIsZero(size) THEN Ok(rings, r)
    ELSE Try(LineStringT_read_ewkb_body(P, r, is_be, type_id, srid), LAMBDA l, rest :
             PolygonT_read_rings(P, rest, is_be, type_id, srid,
                                 WordDec(size), Append(rings, l)))

\* PolygonT::read_ewkb_body reading its rings without the srid
PolygonT_read_ewkb_body_rings_nosrid(P, r, is_be, type_id, srid) ==
    Try(read_u32(r, is_be), LAMBDA size, r1 :
    Try(PolygonT_read_rings(P, r1, is_be, type_id, None, size, << >>),
        LAMBDA rings, r2 : Ok(PolygonT(rings, srid), r2)))

\* impl_read_for_geometry_container_type!(singletype PolygonT contains LineStringT named rings)
PolygonT_read_ewkb_body(P, r, is_be, type_id, srid) ==
    Try(read_u32(r, is_be), LAMBDA size, r1 :
    Try(PolygonT_read_rings(P, r1, is_be, type_id, srid, size, << >>),
        LAMBDA rings, r2 : Ok(PolygonT(rings, srid), r2)))

\* impl_read_for_point_container_type!(multitype MultiPointT): the loop
MultiPointT_read_points(P, r, size, points) ==
    IF WordIsZero(size) THEN Ok(points, r)
    ELSE Try(read_ewkb("P", P, r), LAMBDA p, rest :
             MultiPointT_read_points(P, rest, WordDec(size), Append(points, p)))

\* MultiPointT::read_ewkb_body handing the container's srid down to its points
MultiPointT_read_ewkb_body_inherit(P, r, is_be, type_id, srid) ==
    Try(read_u32(r, is_be), LAMBDA size, r1 :
    Try(MultiPointT_read_points(P, r1, size, << >>),
        LAMBDA points, r2 :
            Ok(MultiPointT([i \in DOMAIN points |-> [points[i] EXCEPT !.srid = srid]], srid),
               r2)))

\* impl_read_for_point_container_type!(multitype MultiPointT)
MultiPointT_read_ewkb_body(P, r, is_be, type_id, srid) ==
    Try(read_u32(r, is_be), LAMBDA size, r1 :
    Try(MultiPointT_read_points(P, r1, size, << >>),
        LAMBDA points, r2 : Ok(MultiPointT(points, srid), r2)))

\* the loop over $itemtype::read_ewkb ending at the first item that fails and
\* returning the items read before it
multitype_read_items_keep_read(itemtype, P, r, size, items) ==
    IF WordIsZero(size) THEN Ok(items, r)
    ELSE LET res == read_ewkb(itemtype, P, r)
         IN  IF res.ok
             THEN multitype_read_items(itemtype, P, res.rest, WordDec(size),
                                       Append(items, res.val))
             ELSE Ok(items, r)

\* impl_read_for_geometry_container_type!(multitype ...): the loop over
\* $itemtype::read_ewkb
multitype_read_items(itemtype, P, r, size, items) ==
    IF WordIsZero(size) THEN Ok(items, r)
    ELSE Try(read_ewkb(itemtype, P, r), LAMBDA g, rest :
             multitype_read_items(itemtype, P, rest, WordDec(size), Append(items, g)))

\* MultiLineStringT::read_ewkb_body dropping the srid of its header
MultiLineStringT_read_ewkb_body_nosrid(P, r, is_be, type_id, srid) ==
    Try(read_u32(r, is_be), LAMBDA size, r1 :
    Try(multitype_read_items("LineStringT", P, r1, size, << >>),
        LAMBDA lines, r2 : Ok(MultiLineStringT(lines, None), r2)))

\* impl_read_for_geometry_container_type!(multitype MultiLineStringT contains LineStringT named lines)
MultiLineStringT_read_ewkb_body(P, r, is_be, type_id, srid) ==
    Try(read_u32(r, is_be), LAMBDA size, r1 :
    Try(multitype_read_items("LineStringT", P, r1, size, << >>),
        LAMBDA lines, r2 : Ok(MultiLineStringT(lines, srid), r2)))

\* impl_read_for_geometry_container_type!(multitype MultiPolygonT contains PolygonT named polygons)
MultiPolygonT_read_ewkb_body(P, r, is_be, type_id, srid) ==
    Try(read_u32(r, is_be), LAMBDA size, r1 :
    Try(multitype_read_items("PolygonT", P, r1, size, << >>),
        LAMBDA polygons, r2 : Ok(MultiPolygonT(polygons, srid), r2)))

\* the arms of the matches on type_id & 0xff, that of 0x07 calling
\* GeometryT::read_ewkb_body for the nested collection
match_arm_generic_body(T, variant, P, r, is_be, type_id, srid) ==
    Try(read_ewkb_body(IF T = "GeometryCollectionT" THEN "GeometryT" ELSE T,
                       P, r, is_be, type_id, srid),
        LAMBDA g, rest : Ok(GeometryT(variant, g), rest))

\* one arm of the matches on type_id & 0xff:
\* GeometryT::$variant($type::read_ewkb_body(raw, is_be, type_id, srid)?)
match_arm(T, variant, P, r, is_be, type_id, srid) ==
    Try(read_ewkb_body(T, P, r, is_be, type_id, srid),
        LAMBDA g, rest : Ok(GeometryT(variant, g), rest))

\* the match of GeometryT::read_ewkb with the arms of 0x05 and 0x06 exchanged
GeometryT_match_arms_exchanged(P, r, is_be, type_id, srid) ==
    CASE kind_of(type_id) = 1 -> match_arm("P", "Point", P, r, is_be, type_id, srid)
      [] kind_of(type_id) = 2 ->
             match_arm("LineStringT", "LineString", P, r, is_be, type_id, srid)
      [] kind_of(type_id) = 3 -> match_arm("PolygonT", "Polygon", P, r, is_be, type_id, srid)
      [] kind_of(type_id) = 4 ->
             match_arm("MultiPointT", "MultiPoint", P, r, is_be, type_id, srid)
      [] kind_of(type_id) = 6 ->
             match_arm("MultiLineStringT", "MultiLineString", P, r, is_be, type_id, srid)
      [] kind_of(type_id) = 5 ->
             match_arm("MultiPolygonT", "MultiPolygon", P, r, is_be, type_id, srid)
      [] kind_of(type_id) = 7 ->
             match_arm("GeometryCollectionT", "GeometryCollection", P, r, is_be, type_id, srid)
      [] OTHER -> Err(ErrUnsupported, r)

\* GeometryT::read_ewkb: the match on type_id & 0xff
GeometryT_match(P, r, is_be, type_id, srid) ==
    CASE kind_of(type_id) = 1 -> match_arm("P", "Point", P, r, is_be, type_id, srid)
      [] kind_of(type_id) = 2 ->
             match_arm("LineStringT", "LineString", P, r, is_be, type_id, srid)
      [] kind_of(type_id) = 3 -> match_arm("PolygonT", "Polygon", P, r, is_be, type_id, srid)
      [] kind_of(type_id) = 4 ->
             match_arm("MultiPointT", "MultiPoint", P, r, is_be, type_id, srid)
      [] kind_of(type_id) = 5 ->
             match_arm("MultiLineStringT", "MultiLineString", P, r, is_be, type_id, srid)
      [] kind_of(type_id) = 6 ->
             match_arm("MultiPolygonT", "MultiPolygon", P, r, is_be, type_id, srid)
      [] kind_of(type_id) = 7 ->
             match_arm("GeometryCollectionT", "GeometryCollection", P, r, is_be, type_id, srid)
      [] OTHER -> Err(ErrUnsupported, r)

\* GeometryT::read_ewkb
GeometryT_read_ewkb(P, r) ==
    Try(read_i8(r), LAMBDA byte_order, r1 :
    Try(read_u32(r1, byte_order = 0), LAMBDA type_id, r2 :
    Try(read_opt_srid(type_id, r2, byte_order = 0), LAMBDA srid, r3 :
    GeometryT_match(P, r3, byte_order = 0, type_id, srid))))

\* GeometryT::read_ewkb_body
GeometryT_read_ewkb_body(P, r, is_be, type_id, srid) == Err(Panic, r)

\* the match of GeometryCollectionT::read_ewkb_body reading any other kind as
\* a point
GeometryCollectionT_match_default_point(P, r, is_be, type_id, srid) ==
    CASE kind_of(type_id) = 2 ->
             match_arm("LineStringT", "LineString", P, r, is_be, type_id, srid)
      [] kind_of(type_id) = 3 -> match_arm("PolygonT", "Polygon", P, r, is_be, type_id, srid)
      [] kind_of(type_id) = 4 ->
             match_arm("MultiPointT", "MultiPoint", P, r, is_be, type_id, srid)
      [] kind_of(type_id) = 5 ->
             match_arm("MultiLineStringT", "MultiLineString", P, r, is_be, type_id, srid)
      [] kind_of(type_id) = 6 ->
             match_arm("MultiPolygonT", "MultiPolygon", P, r, is_be, type_id, srid)
      [] kind_of(type_id) = 7 ->
             match_arm("GeometryCollectionT", "GeometryCollection", P, r, is_be, type_id, srid)
      [] OTHER -> match_arm("P", "Point", P, r, is_be, type_id, srid)

\* GeometryCollectionT::read_ewkb_body: the match on type_id & 0xff
GeometryCollectionT_match(P, r, is_be, type_id, srid) ==
    CASE kind_of(type_id) = 1 -> match_arm("P", "Point", P, r, is_be, type_id, srid)
      [] kind_of(type_id) = 2 ->
             match_arm("LineStringT", "LineString", P, r, is_be, type_id, srid)
      [] kind_of(type_id) = 3 -> match_arm("PolygonT", "Polygon", P, r, is_be, type_id, srid)
      [] kind_of(type_id) = 4 ->
             match_arm("MultiPointT", "MultiPoint", P, r, is_be, type_id, srid)
      [] kind_of(type_id) = 5 ->
             match_arm("MultiLineStringT", "MultiLineString", P, r, is_be, type_id, srid)
      [] kind_of(type_id) = 6 ->
             match_arm("MultiPolygonT", "MultiPolygon", P, r, is_be, type_id, srid)
      [] kind_of(type_id) = 7 ->
             match_arm("GeometryCollectionT", "GeometryCollection", P, r, is_be, type_id, srid)
      [] OTHER -> Err(ErrUnsupported, r)

\* one iteration of the loop of GeometryCollectionT::read_ewkb_body taking
\* every element as little-endian
GeometryCollectionT_read_element_le(P, r) ==
    Try(read_i8(r), LAMBDA byte_order, r1 :
    Try(read_u32(r1, FALSE), LAMBDA type_id, r2 :
    Try(read_opt_srid(type_id, r2, FALSE), LAMBDA srid, r3 :
    GeometryCollectionT_match(P, r3, FALSE, type_id, srid))))

\* GeometryCollectionT::read_ewkb_body: one iteration of the loop reads the
\* element's order byte, type id and srid, and matches on the kind
GeometryCollectionT_read_element(P, r) ==
    Try(read_i8(r), LAMBDA byte_order, r1 :
    Try(read_u32(r1, byte_order = 0), LAMBDA type_id, r2 :
    Try(read_opt_srid(type_id, r2, byte_order = 0), LAMBDA srid, r3 :
    GeometryCollectionT_match(P, r3, byte_order = 0, type_id, srid))))

\* GeometryCollectionT::read_ewkb_body: the loop
GeometryCollectionT_read_geometries(P, r, size, ret) ==
    IF WordIsZero(size) THEN Ok(ret, r)
    ELSE Try(GeometryCollectionT_read_element(P, r), LAMBDA geom, rest :
             GeometryCollectionT_read_geometries(
                 P, rest, WordDec(size),
                 [ret EXCEPT !.geometries = Append(ret.geometries, geom)]))

\* GeometryCollectionT::new
GeometryCollectionT_new == GeometryCollectionT(<< >>, None)

\* GeometryCollectionT::read_ewkb_body
GeometryCollectionT_read_ewkb_body(P, r, is_be, type_id, srid) ==
    Try(read_u32(r, is_be), LAMBDA size, r1 :
    GeometryCollectionT_read_geometries(P, r1, size, GeometryCollectionT_new))

\* T::read_ewkb_body
read_ewkb_body(T, P, r, is_be, type_id, srid) ==
    CASE T = "P" -> P_read_ewkb_body(P, r, is_be, type_id, srid)
      [] T = "LineStringT" -> LineStringT_read_ewkb_body(P, r, is_be, type_id, srid)
      [] T = "PolygonT" -> PolygonT_read_ewkb_body(P, r, is_be, type_id, srid)
      [] T = "MultiPointT" -> MultiPointT_read_ewkb_body(P, r, is_be, type_id, srid)
      [] T = "MultiLineStringT" -> MultiLineStringT_read_ewkb_body(P, r, is_be, type_id, srid)
      [] T = "MultiPolygonT" -> MultiPolygonT_read_ewkb_body(P, r, is_be, type_id, srid)
      [] T = "GeometryCollectionT" ->
             GeometryCollectionT_read_ewkb_body(P, r, is_be, type_id, srid)
      [] T = "GeometryT" -> GeometryT_read_ewkb_body(P, r, is_be, type_id, srid)

\* EwkbRead::read_ewkb taking every order byte but 1 as big-endian
EwkbRead_read_ewkb_one_is_le(T, P, r) ==
    Try(read_i8(r), LAMBDA byte_order, r1 :
    Try(read_u32(r1, byte_order # 1), LAMBDA type_id, r2 :
    Try(read_opt_srid(type_id, r2, byte_order # 1), LAMBDA srid, r3 :
    read_ewkb_body(T, P, r3, byte_order # 1, type_id, srid))))

\* EwkbRead::read_ewkb (the trait's default method)
EwkbRead_read_ewkb(T, P, r) ==
    Try(read_i8(r), LAMBDA byte_order, r1 :
    Try(read_u32(r1, byte_order = 0), LAMBDA type_id, r2 :
    Try(read_opt_srid(type_id, r2, byte_order = 0), LAMBDA srid, r3 :
    read_ewkb_body(T, P, r3, byte_order = 0, type_id, srid))))

\* T::read_ewkb returning an error when the kind of the type id is not the
\* kind of T
read_ewkb_kind_checked(T, P, r) ==
    IF T = "GeometryT" THEN GeometryT_read_ewkb(P, r)
    ELSE Try(read_i8(r), LAMBDA byte_order, r1 :
         Try(read_u32(r1, byte_order = 0), LAMBDA type_id, r2 :
             IF kind_of(type_id) = (CASE T = "P" -> 1 [] T = "LineStringT" -> 2
                                      [] T = "PolygonT" -> 3 [] T = "MultiPointT" -> 4
                                      [] T = "MultiLineStringT" -> 5
                                      [] T = "MultiPolygonT" -> 6
                                      [] T = "GeometryCollectionT" -> 7)
             THEN EwkbRead_read_ewkb(T, P, r)
             ELSE Err(ErrUnsupported, r2)))

\* T::read_ewkb: GeometryT overrides the default method
read_ewkb(T, P, r) ==
    IF T = "GeometryT" THEN GeometryT_read_ewkb(P, r) ELSE EwkbRead_read_ewkb(T, P, r)

(* ---- the same decoder, one loop iteration at a time ---- *)
(* A frame is a loop the decoder is inside of: [item |-> what each         *)
(* iteration reads, left |-> the iterations of `for _ in 0..size` not yet  *)
(* begun, is_be, type_id, srid |-> what the header above handed down].     *)

\* the ? operator as Try has it, the Result computed once before K continues
Then(res, K(_, _)) ==
    CHOOSE o \in {IF re.ok THEN K(re.val, re.rest) ELSE re : re \in {res}} : TRUE

\* the first three reads of read_ewkb: order byte, type id, optional SRID
read_header(r) ==
    Then(read_i8(r), LAMBDA byte_order, r1 :
    Then(read_u32(r1, byte_order = 0), LAMBDA type_id, r2 :
    Then(read_opt_srid(type_id, r2, byte_order = 0), LAMBDA srid, r3 :
    Ok([is_be |-> byte_order = 0, type_id |-> type_id, srid |-> srid], r3))))

\* what one iteration of the loop in T::read_ewkb_body reads: P::read_ewkb_body,
\* LineStringT::read_ewkb_body, P::read_ewkb, LineStringT::read_ewkb,
\* PolygonT::read_ewkb, or an element header and the body it dispatches to
loop_item(T) ==
    CASE T = "LineStringT" -> "P_body"
      [] T = "PolygonT" -> "LineStringT_body"
      [] T = "MultiPointT" -> "P"
      [] T = "MultiLineStringT" -> "LineStringT"
      [] T = "MultiPolygonT" -> "PolygonT"
      [] T = "GeometryCollectionT" -> "element"

\* the start of T::read_ewkb_body: a point is read whole and no loop is
\* entered; a container reads its count and enters its loop. Returns the
\* frames entered.
enter_body(T, P, r, is_be, type_id, srid) ==
    IF T = "P"
    THEN Then(read_f64(r, is_be), LAMBDA x, r1 :
         Then(read_f64(r1, is_be), LAMBDA y, r2 :
         Then(read_opt_f64(has_z(type_id), r2, is_be), LAMBDA z, r3 :
         Then(read_opt_f64(has_m(type_id), r3, is_be), LAMBDA m, r4 :
         Ok(<< >>, r4)))))
    ELSE Then(read_u32(r, is_be),
             LAMBDA size, rest :
                 Ok(<<[item |-> loop_item(T), left |-> size,
                       is_be |-> is_be, type_id |-> type_id, srid |-> srid]>>,
                    rest))

\* the match on the kind of a header just read, up to the start of the body
\* reader it dispatches to
enter_match(P, r, h) ==
    CASE kind_of(h.type_id) = 1 -> enter_body("P", P, r, h.is_be, h.type_id, h.srid)
      [] kind_of(h.type_id) = 2 ->
             enter_body("LineStringT", P, r, h.is_be, h.type_id, h.srid)
      [] kind_of(h.type_id) = 3 -> enter_body("PolygonT", P, r, h.is_be, h.type_id, h.srid)
      [] kind_of(h.type_id) = 4 ->
             enter_body("MultiPointT", P, r, h.is_be, h.type_id, h.srid)
      [] kind_of(h.type_id) = 5 ->
             enter_body("MultiLineStringT", P, r, h.is_be, h.type_id, h.srid)
      [] kind_of(h.type_id) = 6 ->
             enter_body("MultiPolygonT", P, r, h.is_be, h.type_id, h.srid)
      [] kind_of(h.type_id) = 7 ->
             enter_body("GeometryCollectionT", P, r, h.is_be, h.type_id, h.srid)
      [] OTHER -> Err(ErrUnsupported, r)

\* T::read_ewkb up to the first loop iteration
enter_read_ewkb(T, P, r) ==
    Then(read_header(r), LAMBDA h, r1 :
        IF T = "GeometryT" THEN enter_match(P, r1, h)
        ELSE enter_body(T, P, r1, h.is_be, h.type_id, h.srid))

\* one iteration of the loop of frame f that gives up the item it cannot read
\* and goes on with the next
read_item_skip_failed(f, P, r) ==
    LET e == CASE f.item = "P_body" -> enter_body("P", P, r, f.is_be, f.type_id, f.srid)
               [] f.item = "LineStringT_body" ->
                      enter_body("LineStringT", P, r, f.is_be, f.type_id, f.srid)
               [] f.item = "element" ->
                      Then(read_header(r), LAMBDA h, r1 : enter_match(P, r1, h))
               [] OTHER -> enter_read_ewkb(f.item, P, r)
    IN  IF e.ok THEN e ELSE Ok(<< >>, r)

\* one iteration of the loop of frame f, up to the first iteration of the
\* loop it enters, if any; `?` returns its error from the whole decode
read_item(f, P, r) ==
    CASE f.item = "P_body" -> enter_body("P", P, r, f.is_be, f.type_id, f.srid)
      [] f.item = "LineStringT_body" ->
             enter_body("LineStringT", P, r, f.is_be, f.type_id, f.srid)
      [] f.item = "element" ->
             Then(read_header(r), LAMBDA h, r1 : enter_match(P, r1, h))
      [] OTHER -> enter_read_ewkb(f.item, P, r)

-----------------------------------------------------------------------------
(* Writers: std::io::Write, byteorder::WriteBytesExt                       *)
(* A sink is [buf |-> the bytes written, limit |-> None for a Vec<u8> or   *)
(* BytesMut, Some(n) for a sink that takes n bytes and then fails,         *)
(* fail |-> the calls of write_all that return an error without writing,   *)
(* calls |-> the calls of write_all made, failed |-> those that failed].   *)
(* A write returns [ok, w]: whether it succeeded and the sink after it.    *)

Sink(limit) == [buf |-> << >>, limit |-> limit, fail |-> {}, calls |-> 0, failed |-> 0]

\* a sink whose k-th write fails and that takes every other write
FlakySink(k) == [Sink(None) EXCEPT !.fail = {k}]

WOk(w) == [ok |-> TRUE, w |-> w]

WErr(w) == [ok |-> FALSE, err |-> ErrIo, w |-> w]

\* the ? operator on the Result of a write: K continues with the sink
WTry(res, K(_)) == IF res.ok THEN K(res.w) ELSE res

\* Write::write_all
write_all(w, bytes) ==
    IF (w.calls + 1) \in w.fail
    THEN WErr([w EXCEPT !.calls = @ + 1, !.failed = @ + 1])
    ELSE IF ~is_some(w.limit) \/ Len(w.buf) + Len(bytes) <= w.limit[1]
    THEN WOk([w EXCEPT !.buf = w.buf \o bytes, !.calls = @ + 1])
    ELSE WErr([w EXCEPT !.buf = w.buf \o SubSeq(bytes, 1, w.limit[1] - Len(w.buf)),
                        !.calls = @ + 1, !.failed = @ + 1])

write_u8(w, b) == write_all(w, <<b>>)

\* write_u32::<LittleEndian>
write_u32_le(w, word) == write_all(w, Reverse(word))

\* write_i32::<LittleEndian>
write_i32_le(w, v) == write_all(w, Reverse(WordOfI32(v)))

\* write_f64::<LittleEndian>
write_f64_le(w, f) == write_all(w, Reverse(f))

\* postgis::Point::opt_z, opt_m of the four point types
opt_z(p) == IF "z" \in DOMAIN p THEN Some(p.z) ELSE None

opt_m(p) == IF "m" \in DOMAIN p THEN Some(p.m) ELSE None

\* the adapter structs $ewkbtype { geom, srid, point_type }
Ewkb(adapter, geom, srid, point_type) ==
    [adapter |-> adapter, geom |-> geom, srid |-> srid, point_type |-> point_type]

\* the enum EwkbGeometry
EwkbGeometry(inner) == [adapter |-> "EwkbGeometry", inner |-> inner]

RECURSIVE write_ewkb(_, _)
RECURSIVE write_ewkb_body(_, _)
RECURSIVE opt_srid(_)
RECURSIVE type_id(_)
RECURSIVE point_container_write_points(_, _, _, _)
RECURSIVE geometry_container_write_items(_, _, _, _, _, _)
RECURSIVE EwkbGeometryCollection_write_geometries(_, _, _)

\* $typecode of the adapters
typecode(adapter) ==
    CASE adapter = "EwkbPoint" -> <<0, 0, 0, 1>>
      [] adapter = "EwkbLineString" -> <<0, 0, 0, 2>>
      [] adapter = "EwkbPolygon" -> <<0, 0, 0, 3>>
      [] adapter = "EwkbMultiPoint" -> <<0, 0, 0, 4>>
      [] adapter = "EwkbMultiLineString" -> <<0, 0, 0, 5>>
      [] adapter = "EwkbMultiPolygon" -> <<0, 0, 0, 6>>
      [] adapter = "EwkbGeometryCollection" -> <<0, 0, 0, 7>>

\* EwkbWrite::opt_srid of the adapters
opt_srid(a) ==
    IF a.adapter = "EwkbGeometry" THEN opt_srid(a.inner) ELSE a.srid

\* EwkbWrite::type_id of the adapters
type_id(a) ==
    IF a.adapter = "EwkbGeometry" THEN type_id(a.inner)
    ELSE WordOr(typecode(a.adapter), wkb_type_id(a.point_type, a.srid))

\* `self.opt_srid().map(|srid| w.write_i32::<LittleEndian>(srid));`
\* the Result of the write is dropped
write_opt_srid(srid, w) ==
    IF is_some(srid) THEN WOk(write_i32_le(w, srid[1]).w) ELSE WOk(w)

\* EwkbWrite::write_ewkb writing the type id and the srid big-endian
write_ewkb_big_endian(a, w) ==
    WTry(write_u8(w, 1), LAMBDA w1 :
    WTry(write_all(w1, type_id(a)), LAMBDA w2 :
    WTry(IF is_some(opt_srid(a)) THEN WOk(write_all(w2, WordOfI32(opt_srid(a)[1])).w)
         ELSE WOk(w2), LAMBDA w3 :
    write_ewkb_body(a, w3))))

\* EwkbWrite::write_ewkb
write_ewkb(a, w) ==
    WTry(write_u8(w, 1), LAMBDA w1 :
    WTry(write_u32_le(w1, type_id(a)), LAMBDA w2 :
    WTry(write_opt_srid(opt_srid(a), w2), LAMBDA w3 :
    write_ewkb_body(a, w3))))

\* `self.geom.opt_z().map(|z| w.write_f64::<LittleEndian>(z))`
write_opt_f64(f, w) ==
    IF is_some(f) THEN write_f64_le(w, f[1]) ELSE WOk(w)

\* EwkbWrite for EwkbPoint: write_ewkb_body
EwkbPoint_write_ewkb_body(a, w) ==
    WTry(write_f64_le(w, a.geom.x), LAMBDA w1 :
    WTry(write_f64_le(w1, a.geom.y), LAMBDA w2 :
    WTry(write_opt_f64(opt_z(a.geom), w2), LAMBDA w3 :
    write_opt_f64(opt_m(a.geom), w3))))

\* $writecmd being write_ewkb in every container
command_always_write_ewkb(command, wkb, w) == write_ewkb(wkb, w)

\* $writecmd of the container macros
command_(command, wkb, w) ==
    IF command = "write_ewkb" THEN write_ewkb(wkb, w) ELSE write_ewkb_body(wkb, w)

\* the loop of point_container_write! writing each point with its own srid
point_container_write_points_own_srid(a, command, i, w) ==
    IF i > Len(a.geom.points) THEN WOk(w)
    ELSE WTry(command_(command,
                       Ewkb("EwkbPoint", a.geom.points[i], a.geom.points[i].srid,
                            a.point_type), w),
              LAMBDA w1 : point_container_write_points(a, command, i + 1, w1))

\* point_container_write!: the loop of write_ewkb_body, from point i on;
\* command is $writecmd
point_container_write_points(a, command, i, w) ==
    IF i > Len(a.geom.points) THEN WOk(w)
    ELSE WTry(command_(command, Ewkb("EwkbPoint", a.geom.points[i], None, a.point_type), w),
              LAMBDA w1 : point_container_write_points(a, command, i + 1, w1))

\* point_container_write!: write_ewkb_body
point_container_write_ewkb_body(a, command, w) ==
    WTry(write_u32_le(w, U32(Len(a.geom.points))), LAMBDA w1 :
    point_container_write_points(a, command, 1, w1))

\* the loop of geometry_container_write! giving each item the point type Point
geometry_container_write_items_flat(a, items, ewkbitemtype, command, i, w) ==
    IF i > Len(items) THEN WOk(w)
    ELSE WTry(command_(command, Ewkb(ewkbitemtype, items[i], None, "Point"), w),
              LAMBDA w1 :
                  geometry_container_write_items(a, items, ewkbitemtype, command, i + 1, w1))

\* geometry_container_write!: the loop of write_ewkb_body over
\* self.geom.$itemname(), from item i on
geometry_container_write_items(a, items, ewkbitemtype, command, i, w) ==
    IF i > Len(items) THEN WOk(w)
    ELSE WTry(command_(command, Ewkb(ewkbitemtype, items[i], None, a.point_type), w),
              LAMBDA w1 :
                  geometry_container_write_items(a, items, ewkbitemtype, command, i + 1, w1))

\* geometry_container_write!: write_ewkb_body
geometry_container_write_ewkb_body(a, items, ewkbitemtype, command, w) ==
    WTry(write_u32_le(w, U32(Len(items))), LAMBDA w1 :
    geometry_container_write_items(a, items, ewkbitemtype, command, 1, w1))

\* the adapter of a GeometryT variant
EwkbOfVariant(variant) ==
    CASE variant = "Point" -> "EwkbPoint"
      [] variant = "LineString" -> "EwkbLineString"
      [] variant = "Polygon" -> "EwkbPolygon"
      [] variant = "MultiPoint" -> "EwkbMultiPoint"
      [] variant = "MultiLineString" -> "EwkbMultiLineString"
      [] variant = "MultiPolygon" -> "EwkbMultiPolygon"
      [] variant = "GeometryCollection" -> "EwkbGeometryCollection"

\* EwkbGeometryCollection::write_ewkb_body: the adapter built for one element
\* by the match on geom.as_type()
EwkbGeometryCollection_element(a, geom) ==
    Ewkb(EwkbOfVariant(geom.variant), geom.geom, None, a.point_type)

\* EwkbGeometryCollection::write_ewkb_body: the loop, from element i on
EwkbGeometryCollection_write_geometries(a, i, w) ==
    IF i > Len(a.geom.geometries) THEN WOk(w)
    ELSE WTry(write_ewkb(EwkbGeometryCollection_element(a, a.geom.geometries[i]), w),
              LAMBDA w1 : EwkbGeometryCollection_write_geometries(a, i + 1, w1))

\* EwkbGeometryCollection::write_ewkb_body
EwkbGeometryCollection_write_ewkb_body(a, w) ==
    WTry(write_u32_le(w, U32(Len(a.geom.geometries))), LAMBDA w1 :
    EwkbGeometryCollection_write_geometries(a, 1, w1))

\* EwkbWrite::write_ewkb_body of the adapters
write_ewkb_body(a, w) ==
    CASE a.adapter = "EwkbPoint" -> EwkbPoint_write_ewkb_body(a, w)
      [] a.adapter = "EwkbLineString" ->
             point_container_write_ewkb_body(a, "write_ewkb_body", w)
      [] a.adapter = "EwkbMultiPoint" ->
             point_container_write_ewkb_body(a, "write_ewkb", w)
      [] a.adapter = "EwkbPolygon" ->
             geometry_container_write_ewkb_body(a, a.geom.rings, "EwkbLineString",
                                                "write_ewkb_body", w)
      [] a.adapter = "EwkbMultiLineString" ->
             geometry_container_write_ewkb_body(a, a.geom.lines, "EwkbLineString",
                                                "write_ewkb", w)
      [] a.adapter = "EwkbMultiPolygon" ->
             geometry_container_write_ewkb_body(a, a.geom.polygons, "EwkbPolygon",
                                                "write_ewkb", w)
      [] a.adapter = "EwkbGeometryCollection" ->
             EwkbGeometryCollection_write_ewkb_body(a, w)
      [] a.adapter = "EwkbGeometry" -> write_ewkb_body(a.inner, w)

\* the concrete type held by a GeometryT variant
TypeOfVariant(variant) ==
    CASE variant = "Point" -> "P"
      [] variant = "LineString" -> "LineStringT"
      [] variant = "Polygon" -> "PolygonT"
      [] variant = "MultiPoint" -> "MultiPointT"
      [] variant = "MultiLineString" -> "MultiLineStringT"
      [] variant = "MultiPolygon" -> "MultiPolygonT"
      [] variant = "GeometryCollection" -> "GeometryCollectionT"

\* the adapter type of a concrete type
EwkbOfType(T) ==
    CASE T = "P" -> "EwkbPoint"
      [] T = "LineStringT" -> "EwkbLineString"
      [] T = "PolygonT" -> "EwkbPolygon"
      [] T = "MultiPointT" -> "EwkbMultiPoint"
      [] T = "MultiLineStringT" -> "EwkbMultiLineString"
      [] T = "MultiPolygonT" -> "EwkbMultiPolygon"
      [] T = "GeometryCollectionT" -> "EwkbGeometryCollection"

\* AsEwkbPoint, AsEwkbLineString, ..., AsEwkbGeometryCollection: as_ewkb of a
\* value of the concrete type T with point type P
concrete_as_ewkb(T, P, v) == Ewkb(EwkbOfType(T), v, v.srid, P)

\* as_ewkb of a value of type T; AsEwkbGeometry for GeometryT
as_ewkb(T, P, v) ==
    IF T = "GeometryT"
    THEN EwkbGeometry(concrete_as_ewkb(TypeOfVariant(v.variant), P, v.geom))
    ELSE concrete_as_ewkb(T, P, v)

\* accepts_geography!: the SQL types from_sql is called with
SqlTypes == {"geometry", "geography"}

\* stringify!($ptype), stringify!($geotype), and stringify!(P) in the impls for
\* GeometryT<P> and GeometryCollectionT<P>, where P is the name of the type
\* parameter
stringify(T, P) ==
    IF T = "P" THEN P
    ELSE IF T \in {"GeometryT", "GeometryCollectionT"} THEN "P"
    ELSE T

\* FromSql::from_sql: read_ewkb on a Cursor over raw, the error mapped to the
\* message, which is the sequence of its words; a panic is not an error that
\* map_err sees
from_sql(T, P, ty, bytes) ==
    LET res == read_ewkb(T, P, Reader(bytes))
    IN  IF res.ok THEN [ok |-> TRUE, val |-> Some(res.val), err |-> None]
        ELSE IF res.err = Panic THEN [ok |-> FALSE, val |-> None, err |-> Some(<<Panic>>)]
        ELSE [ok |-> FALSE, val |-> None,
              err |-> Some(<<"cannot convert", ty, "to", stringify(T, P)>>)]

\* the digits of {:X}
UpperHex ==
    <<"0", "1", "2", "3", "4", "5", "6", "7", "8", "9", "A", "B", "C", "D", "E", "F">>

\* format!("{:X}", b): no padding
format_X(b) ==
    IF b < 16 THEN <<UpperHex[b + 1]>>
    ELSE <<UpperHex[(b \div 16) + 1], UpperHex[(b % 16) + 1]>>

\* format!("{:02X}", b): a String is the sequence of its characters
format_02X(b) == <<UpperHex[(b \div 16) + 1], UpperHex[(b % 16) + 1]>>

\* buf.iter().fold(String::new(), |s, &b| s + &format!("{:02X}", b)) over the
\* bytes lo..hi of buf: the formats of the bytes appended in order, computed by
\* halves
RECURSIVE hex_fold(_, _, _)
hex_fold(buf, lo, hi) ==
    IF lo > hi THEN << >>
    ELSE IF lo = hi THEN format_02X(buf[lo])
    ELSE hex_fold(buf, lo, (lo + hi) \div 2) \o hex_fold(buf, (lo + hi) \div 2 + 1, hi)

\* EwkbWrite::to_hex_ewkb: write_ewkb into a new Vec, unwrapped (a write to a
\* Vec does not fail), then the fold
to_hex_ewkb(a) ==
    LET buf == write_ewkb(a, Sink(None)).w.buf
    IN  hex_fold(buf, 1, Len(buf))

-----------------------------------------------------------------------------
(* The environment: the byte streams handed to the readers and the values  *)
(* handed to the writers.                                                  *)

\* most elements of a top-level container
MaxItems == 2

\* elements of every container below the top level
InnerItems == 1

\* the k-th coordinate used: a double 0x40kk000000000000
F(k) == <<64, k, 0, 0, 0, 0, 0, 0>>

Srids == {None, Some(4326)}

ElementSrids == {None, Some(3857)}

\* order bytes: 0 is big-endian, 1 little-endian
Orders == {0, 1}

ConcreteTypes ==
    {"P", "LineStringT", "PolygonT", "MultiPointT", "MultiLineStringT", "MultiPolygonT",
     "GeometryCollectionT"}

Types == ConcreteTypes \cup {"GeometryT"}

\* the type whose body a kind byte announces, and the GeometryT variant
TypeOfKind(k) ==
    CASE k = 1 -> "P" [] k = 2 -> "LineStringT" [] k = 3 -> "PolygonT"
      [] k = 4 -> "MultiPointT" [] k = 5 -> "MultiLineStringT" [] k = 6 -> "MultiPolygonT"
      [] k = 7 -> "GeometryCollectionT"

VariantOfKind(k) ==
    CASE k = 1 -> "Point" [] k = 2 -> "LineString" [] k = 3 -> "Polygon"
      [] k = 4 -> "MultiPoint" [] k = 5 -> "MultiLineString" [] k = 6 -> "MultiPolygon"
      [] k = 7 -> "GeometryCollection"

RECURSIVE Concat(_)
Concat(ss) == IF ss = << >> THEN << >> ELSE Head(ss) \o Concat(Tail(ss))

(* ---- wire streams, as a server or an adversary may send them ---- *)

WWord(ord, word) == IF ord = 0 THEN word ELSE Reverse(word)

WHeader(ord, kind, z, m, srid) ==
    <<ord>>
    \o WWord(ord, <<(IF z THEN 128 ELSE 0) + (IF m THEN 64 ELSE 0)
                        + (IF is_some(srid) THEN 32 ELSE 0), 0, 0, kind>>)
    \o (IF is_some(srid) THEN WWord(ord, WordOfI32(srid[1])) ELSE << >>)

WCoords(ord, z, m, k) ==
    WWord(ord, F(4 * k)) \o WWord(ord, F(4 * k + 1))
    \o (IF z THEN WWord(ord, F(4 * k + 2)) ELSE << >>)
    \o (IF m THEN WWord(ord, F(4 * k + 3)) ELSE << >>)

WCount(ord, n) == WWord(ord, U32(n))

\* an inline LineString body: n points numbered from base
WLine(ord, z, m, n, base) ==
    WCount(ord, n) \o Concat([i \in 1..n |-> WCoords(ord, z, m, base + i - 1)])

\* an inline Polygon body: n rings of InnerItems points
WPolygon(ord, z, m, n, base) ==
    WCount(ord, n) \o Concat([i \in 1..n |-> WLine(ord, z, m, InnerItems, base + 4 * (i - 1))])

\* the body of a geometry of the given shape below the top level
WInnerBody(shape, ord, z, m, base) ==
    CASE shape = 1 -> WCoords(ord, z, m, base)
      [] shape = 2 -> WLine(ord, z, m, InnerItems, base)
      [] shape = 3 -> WPolygon(ord, z, m, InnerItems, base)
      [] shape = 4 ->
             WCount(ord, InnerItems)
             \o Concat([i \in 1..InnerItems |->
                    WHeader(ord, 1, z, m, None) \o WCoords(ord, z, m, base + i - 1)])
      [] shape = 5 ->
             WCount(ord, InnerItems)
             \o Concat([i \in 1..InnerItems |->
                    WHeader(ord, 2, z, m, None)
                    \o WLine(ord, z, m, InnerItems, base + 4 * (i - 1))])
      [] shape = 6 ->
             WCount(ord, InnerItems)
             \o Concat([i \in 1..InnerItems |->
                    WHeader(ord, 3, z, m, None)
                    \o WPolygon(ord, z, m, InnerItems, base + 4 * (i - 1))])
      [] shape = 7 ->
             WCount(ord, InnerItems)
             \o Concat([i \in 1..InnerItems |->
                    WHeader(ord, 1, z, m, None) \o WCoords(ord, z, m, base + i - 1)])

\* one element of a typed-element container: its own header, then its body
WElement(eshape, ekind, eord, z, m, esrid, base) ==
    WHeader(eord, ekind, z, m, esrid) \o WInnerBody(eshape, eord, z, m, base)

\* a top-level geometry: shape is the layout of its body, kind the kind byte
\* of its header; the first element of a collection has shape eshape and kind
\* byte ekind, the others are points
Wire(shape, kind, ord, z, m, srid, n, eshape, ekind, eord, esrid) ==
    WHeader(ord, kind, z, m, srid)
    \o CASE shape = 1 -> WCoords(ord, z, m, 0)
         [] shape = 2 -> WLine(ord, z, m, n, 0)
         [] shape = 3 -> WPolygon(ord, z, m, n, 0)
         [] shape \in 4..6 ->
                WCount(ord, n)
                \o Concat([i \in 1..n |->
                       WElement(shape - 3, ekind, eord, z, m, esrid, 16 * (i - 1))])
         [] shape = 7 ->
                WCount(ord, n)
                \o Concat([i \in 1..n |->
                       IF i = 1 THEN WElement(eshape, ekind, eord, z, m, esrid, 0)
                       ELSE WElement(1, 1, eord, z, m, esrid, 16 * (i - 1))])

\* a typed-element container whose elements are in turn under the order byte
\* eord and under the other one, the first under eord
WireMixed(shape, ord, z, m, srid, n, eshape, ekind, eord) ==
    WHeader(ord, shape, z, m, srid)
    \o WCount(ord, n)
    \o Concat([i \in 1..n |->
           WElement(IF shape = 7 THEN (IF i = 1 THEN eshape ELSE 1) ELSE shape - 3,
                    IF shape = 7 THEN (IF i = 1 THEN ekind ELSE 1) ELSE shape - 3,
                    IF i % 2 = 1 THEN eord ELSE 1 - eord,
                    z, m, None, 16 * (i - 1))])

\* kind bytes no geometry has
BadKinds == {0, 8}

\* the headers tried at the top level of points and inline containers
TopHeaders == Orders \X BOOLEAN \X BOOLEAN \X Srids

\* the headers tried at the top level of typed-element containers
ContainerHeaders == Orders \X {<<FALSE, FALSE>>, <<TRUE, TRUE>>} \X Srids

\* the headers tried for the elements of a typed-element container
ElementHeaders == Orders \X ElementSrids

\* the element headers without an SRID, as PostGIS sends them
PlainElementHeaders == Orders \X {None}

\* the first element of a collection: each shape under its own kind byte, and
\* a point body under each bad kind byte
CollectionElements == {<<k, k>> : k \in 1..7} \cup {<<1, k>> : k \in BadKinds}

\* points, and point bodies under a bad kind byte
PointInputs ==
    {Wire(1, kind, h[1], h[2], h[3], h[4], 0, 1, 1, 1, None) :
        kind \in {1} \cup BadKinds, h \in TopHeaders}

\* LineString and Polygon
InlineInputs ==
    {Wire(shape, shape, h[1], h[2], h[3], h[4], n, 1, 1, 1, None) :
        shape \in 2..3, n \in 0..MaxItems, h \in TopHeaders}

\* MultiPoint, MultiLineString, MultiPolygon whose elements have the headers E
MultiWires(E) ==
    {Wire(shape, shape, h[1], h[2][1], h[2][2], h[3], n, shape - 3, shape - 3, e[1], e[2]) :
        shape \in 4..6, n \in 0..MaxItems, h \in ContainerHeaders, e \in E}

\* GeometryCollection whose elements have the headers E
CollectionWires(E) ==
    {Wire(7, 7, h[1], h[2][1], h[2][2], h[3], n, c[1], c[2], e[1], e[2]) :
        n \in 0..MaxItems, h \in ContainerHeaders, c \in CollectionElements, e \in E}

MultiInputs == MultiWires(ElementHeaders)

CollectionInputs == CollectionWires(ElementHeaders)

\* the typed-element containers none of whose elements carries an SRID
PlainElementInputs == MultiWires(PlainElementHeaders) \cup CollectionWires(PlainElementHeaders)

\* streams that end inside the SRID field a header announces: of a geometry,
\* and of the only element of a collection
TruncatedInputs ==
    {SubSeq(WHeader(ord, kind, FALSE, FALSE, Some(4326)), 1, 5 + cut) :
        ord \in Orders, kind \in {1, 7} \cup BadKinds, cut \in {0, 2}}
    \cup
    {WHeader(ord, 7, FALSE, FALSE, srid) \o WCount(ord, 1)
     \o SubSeq(WHeader(ord, kind, FALSE, FALSE, Some(3857)), 1, 5 + cut) :
        ord \in Orders, srid \in Srids, kind \in {1} \cup BadKinds, cut \in {0, 2}}

\* order bytes other than 0 and 1
OtherOrders == {2, 255}

\* geometries of MaxItems items whose order bytes are neither 0 nor 1
OtherOrderInputs ==
    {Wire(shape, shape, o, zm, zm, srid, MaxItems, 1, 1, 1, None) :
        shape \in 1..3, o \in OtherOrders, zm \in BOOLEAN, srid \in Srids}
    \cup
    {Wire(shape, shape, o, FALSE, FALSE, srid, MaxItems, shape - 3, shape - 3, e, None) :
        shape \in 4..6, o \in OtherOrders, e \in OtherOrders, srid \in Srids}
    \cup
    {Wire(7, 7, 255, FALSE, FALSE, srid, MaxItems, c[1], c[2], 2, None) :
        c \in CollectionElements, srid \in Srids}

\* MultiPoint, MultiLineString, MultiPolygon and GeometryCollection of
\* MaxItems elements, big-endian and little-endian in turn
MixedInputs ==
    {WireMixed(shape, h[1], h[2][1], h[2][2], h[3], MaxItems, shape - 3, shape - 3, eord) :
        shape \in 4..6, h \in ContainerHeaders, eord \in Orders}
    \cup
    {WireMixed(7, h[1], h[2][1], h[2][2], h[3], MaxItems, k, k, eord) :
        k \in 1..7, h \in ContainerHeaders, eord \in Orders}

\* what is added to the count of a container to overstate it
Overstatements == {1, 2, 256}

\* the little-endian bytes of a container with extra added to the count that
\* follows its header
Overstated(bytes, extra) ==
    LET h == 5 + (IF (bytes[5] \div 32) % 2 = 1 THEN 4 ELSE 0)
        n == bytes[h + 1] + 256 * bytes[h + 2]
    IN  SubSeq(bytes, 1, h) \o WCount(1, n + extra) \o SubSeq(bytes, h + 5, Len(bytes))

\* the largest count a container can declare: 2^32 - 1
MaxCount == <<255, 255, 255, 255>>

\* the bytes of a container without SRID, the count after its header replaced
\* by cnt
Recounted(bytes, cnt) == SubSeq(bytes, 1, 5) \o cnt \o SubSeq(bytes, 10, Len(bytes))

\* collections one inside the other, d below the outermost one, each
\* declaring cnt elements and holding one; the innermost holds what tail is
RECURSIVE WNested(_, _, _, _)
WNested(ord, d, cnt, tail) ==
    WHeader(ord, 7, FALSE, FALSE, None) \o cnt
    \o (IF d = 0 THEN tail ELSE WNested(ord, d - 1, cnt, tail))

\* what the innermost collection holds: nothing, a point, or the header of a
\* kind no geometry has
NestedTails(ord) ==
    {<< >>,
     WHeader(ord, 1, FALSE, FALSE, None) \o WCoords(ord, FALSE, FALSE, 0),
     WHeader(ord, 8, FALSE, FALSE, None)}

\* containers of every shape of MaxItems items
ContainerLoopInputs ==
    {Wire(shape, shape, ord, zm, zm, None, MaxItems, shape - 3, shape - 3, ord, None) :
        shape \in 2..6, ord \in Orders, zm \in BOOLEAN}
    \cup
    {Wire(7, 7, ord, zm, zm, None, MaxItems, c[1], c[2], 1 - ord, None) :
        c \in CollectionElements, ord \in Orders, zm \in BOOLEAN}

\* the streams the decoder is followed through iteration by iteration: points,
\* containers of every shape, the same declaring 2^32 - 1 items, and
\* collections nested up to MaxItems + 1 deep that declare one element or
\* 2^32 - 1
LoopInputs ==
    {Wire(1, 1, ord, zm, zm, None, 0, 1, 1, ord, None) : ord \in Orders, zm \in BOOLEAN}
    \cup ContainerLoopInputs
    \cup {Recounted(b, MaxCount) : b \in ContainerLoopInputs}
    \cup UNION {{WNested(ord, d, WWord(ord, cnt), tail) :
                    d \in 0..(MaxItems + 1), cnt \in {U32(1), MaxCount},
                    tail \in NestedTails(ord)} : ord \in Orders}

\* the bytes a sink takes before it fails, and the write that a sink fails
SinkLimits == {0, 3, 7, 12}

FailingCalls == {1, 2, 3, 4}

\* the sinks that fail
FailingSinks == {Sink(Some(n)) : n \in SinkLimits} \cup {FlakySink(k) : k \in FailingCalls}

WireInputs ==
    PointInputs \cup InlineInputs \cup MultiInputs \cup CollectionInputs \cup TruncatedInputs
    \cup OtherOrderInputs

\* the kind byte of the first header of a stream
WireKind(bytes) == IF bytes[1] = 0 THEN bytes[5] ELSE bytes[2]

\* the flags byte of the first header of a stream
WireFlags(bytes) == IF bytes[1] = 0 THEN bytes[2] ELSE bytes[5]

\* the SRID field of the first header of a stream, if it has one
WireSrid(bytes) ==
    IF (WireFlags(bytes) \div 32) % 2 = 1
    THEN Some(I32OfWord(WWord(bytes[1], SubSeq(bytes, 6, 9))))
    ELSE None

\* the type a stream is meant to be read as
NaturalType(bytes) ==
    IF WireKind(bytes) \in 1..7 THEN TypeOfKind(WireKind(bytes)) ELSE "P"

(* ---- in-memory values, as a caller may construct them ---- *)

\* sub-items may carry any srid of their own
ItemSrids == {None, Some(4326), Some(3857)}

\* point number k of type P
MkPoint(P, k, srid) ==
    new_from_opt_vals(P, F(4 * k), F(4 * k + 1), Some(F(4 * k + 2)), Some(F(4 * k + 3)), srid)

MkLine(P, n, base, srid, isrid) ==
    LineStringT([i \in 1..n |-> MkPoint(P, base + i - 1, isrid)], srid)

MkPolygon(P, n, base, srid, isrid) ==
    PolygonT([i \in 1..n |-> MkLine(P, InnerItems, base + 4 * (i - 1), isrid, isrid)], srid)

\* a value of type T below the top level
MkInner(T, P, base, srid, isrid) ==
    CASE T = "P" -> MkPoint(P, base, srid)
      [] T = "LineStringT" -> MkLine(P, InnerItems, base, srid, isrid)
      [] T = "PolygonT" -> MkPolygon(P, InnerItems, base, srid, isrid)
      [] T = "MultiPointT" ->
             MultiPointT([i \in 1..InnerItems |-> MkPoint(P, base + i - 1, isrid)], srid)
      [] T = "MultiLineStringT" ->
             MultiLineStringT([i \in 1..InnerItems |->
                                  MkLine(P, InnerItems, base + 4 * (i - 1), isrid, isrid)], srid)
      [] T = "MultiPolygonT" ->
             MultiPolygonT([i \in 1..InnerItems |->
                               MkPolygon(P, InnerItems, base + 4 * (i - 1), isrid, isrid)], srid)
      [] T = "GeometryCollectionT" ->
             GeometryCollectionT([i \in 1..InnerItems |->
                                     GeometryT("Point", MkPoint(P, base + i - 1, isrid))], srid)

\* a top-level value of concrete type T: n items whose srid, and whose
\* sub-items' srid, is isrid; the first element of a collection has kind ekind
MkValue(T, P, n, srid, isrid, ekind) ==
    CASE T = "P" -> MkPoint(P, 0, srid)
      [] T = "LineStringT" -> MkLine(P, n, 0, srid, isrid)
      [] T = "PolygonT" -> MkPolygon(P, n, 0, srid, isrid)
      [] T = "MultiPointT" ->
             MultiPointT([i \in 1..n |-> MkPoint(P, 16 * (i - 1), isrid)], srid)
      [] T = "MultiLineStringT" ->
             MultiLineStringT([i \in 1..n |->
                                  MkInner("LineStringT", P, 16 * (i - 1), isrid, isrid)], srid)
      [] T = "MultiPolygonT" ->
             MultiPolygonT([i \in 1..n |->
                               MkInner("PolygonT", P, 16 * (i - 1), isrid, isrid)], srid)
      [] T = "GeometryCollectionT" ->
             GeometryCollectionT(
                 [i \in 1..n |->
                     IF i = 1
                     THEN GeometryT(VariantOfKind(ekind),
                                    MkInner(TypeOfKind(ekind), P, 0, isrid, isrid))
                     ELSE GeometryT("Point", MkPoint(P, 16 * (i - 1), isrid))], srid)

\* the values whose items have an srid in I
ValuesWith(I) ==
    UNION {
        {[T |-> "P", P |-> P, v |-> MkValue("P", P, 0, srid, None, 1)] :
            P \in PointType, srid \in Srids},
        {[T |-> T, P |-> P, v |-> MkValue(T, P, n, srid, isrid, 1)] :
            T \in ConcreteTypes \ {"P", "GeometryCollectionT"}, P \in PointType,
            n \in 0..MaxItems, srid \in Srids, isrid \in I},
        {[T |-> "GeometryCollectionT", P |-> P,
          v |-> MkValue("GeometryCollectionT", P, n, srid, isrid, ekind)] :
            P \in PointType, n \in 0..MaxItems, srid \in Srids, isrid \in I,
            ekind \in 1..7},
        {[T |-> "GeometryT", P |-> P,
          v |-> GeometryT(VariantOfKind(k), MkValue(TypeOfKind(k), P, n, srid, isrid, 1))] :
            k \in 1..7, P \in PointType, n \in 1..1, srid \in Srids, isrid \in I}
    }

Values == ValuesWith(ItemSrids)

\* the values whose items have no srid of their own
PlainValues == ValuesWith({None})

\* the bytes written for the value g
Encoded(g) == write_ewkb(as_ewkb(g.T, g.P, g.v), Sink(None)).w.buf

\* the values at the head of a stream of several: of every type, empty and of
\* MaxItems items
StreamedFirst ==
    {[T |-> T, P |-> P, v |-> MkValue(T, P, n, srid, None, 5)] :
        T \in ConcreteTypes, P \in {"Point", "PointZM"}, n \in {0, MaxItems}, srid \in Srids}

\* the values that follow them
StreamedNext ==
    {[T |-> T, P |-> "PointZ", v |-> MkValue(T, "PointZ", InnerItems, None, None, 2)] :
        T \in ConcreteTypes}

\* bytes that follow a geometry and are not one
Junk == <<255, 255, 255>>

-----------------------------------------------------------------------------
(* The state machine: calls of read_ewkb and write_ewkb *)

\* no loop entered, no iteration begun
NoLoops == [frames |-> << >>, iters |-> 0]

Init ==
    /\ \/ /\ \E bytes \in WireInputs : raw = Reader(bytes)
          /\ value = None
          /\ origin = "wire"
          /\ pc = "stream"
       \/ /\ \E bytes \in MixedInputs : raw = Reader(bytes)
          /\ value = None
          /\ origin = "mixed"
          /\ pc = "stream"
       \/ /\ \E v1 \in StreamedFirst :
                \/ \E v2 \in StreamedNext :
                       /\ value = <<v1, v2>>
                       /\ raw = Reader(Encoded(v1) \o Encoded(v2))
                \/ /\ value = <<v1>>
                   /\ raw = Reader(Encoded(v1) \o Junk)
          /\ origin = "concat"
          /\ pc = "stream"
       \/ /\ raw = Reader(<< >>)
          /\ \E g \in Values : value = Some(g)
          /\ origin = "value"
          /\ pc = "value"
    /\ target = None
    /\ result = None
    /\ out = Sink(None)
    /\ wres = None
    /\ hex = None
    /\ loops = NoLoops

\* the point types a caller reads a stream as type T with: any when T is the
\* type the stream is meant for or GeometryT, Point when it is another type;
\* a decoded value that was written again is read back as what it is
ReadPointTypes(T) ==
    IF origin \in {"decoded", "concat"} THEN {value[1].P}
    ELSE IF T \in {NaturalType(raw.buf), "GeometryT"} THEN PointType
    ELSE {"Point"}

\* T::<P>::read_ewkb(&mut raw)
ReadEwkb(T) ==
    /\ pc = "stream"
    /\ origin = "decoded" => T = value[1].T
    /\ \E P \in ReadPointTypes(T) :
        LET res == read_ewkb(T, P, raw)
        IN  /\ result' = Some([ok |-> res.ok,
                               val |-> IF res.ok THEN Some(res.val) ELSE None,
                               err |-> IF res.ok THEN None ELSE Some(res.err)])
            /\ raw' = res.rest
            /\ target' = Some([T |-> T, P |-> P])
    /\ pc' = "read"
    /\ UNCHANGED <<value, out, wres, hex, origin, loops>>

\* T::<P>::read_ewkb(&mut raw) once more on a stream of several geometries,
\* after a read that returned the first of them
ReadNext(T) ==
    /\ pc = "read"
    /\ origin = "concat"
    /\ Len(value) = 2
    /\ result[1].ok
    /\ target[1].T \in {value[1].T, "GeometryT"}
    /\ T \in {value[2].T, "GeometryT"}
    /\ LET res == read_ewkb(T, value[2].P, raw)
       IN  /\ result' = Some([ok |-> res.ok,
                              val |-> IF res.ok THEN Some(res.val) ELSE None,
                              err |-> IF res.ok THEN None ELSE Some(res.err)])
           /\ raw' = res.rest
    /\ target' = Some([T |-> T, P |-> value[2].P])
    /\ pc' = "read_next"
    /\ UNCHANGED <<value, out, wres, hex, origin, loops>>

\* T::<P>::read_ewkb_body(&mut raw, is_be, type_id, srid), called by a caller
\* that has read the header of a point stream off the wire itself; a panic
\* returns nothing to the caller
ReadEwkbBody(T) ==
    /\ pc = "stream"
    /\ origin = "wire"
    /\ raw.buf \in PointInputs
    /\ \E P \in PointType :
        LET is_be == raw.buf[1] = 0
            word == read_u32([raw EXCEPT !.pos = 1], is_be)
            srid == read_opt_srid(word.val, word.rest, is_be)
            res == read_ewkb_body(T, P, srid.rest, is_be, word.val, srid.val)
        IN  /\ result' = IF ~res.ok /\ res.err = Panic THEN None
                          ELSE Some([ok |-> res.ok,
                                     val |-> IF res.ok THEN Some(res.val) ELSE None,
                                     err |-> IF res.ok THEN None ELSE Some(res.err)])
            /\ pc' = IF ~res.ok /\ res.err = Panic THEN "panicked" ELSE "body_read"
            /\ raw' = res.rest
            /\ target' = Some([T |-> T, P |-> P])
    /\ UNCHANGED <<value, out, wres, hex, origin, loops>>

\* T::<P>::from_sql(ty, raw) on the bytes of a column of type ty
FromSql(T) ==
    /\ pc = "stream"
    /\ origin = "wire"
    /\ \E P \in ReadPointTypes(T), ty \in SqlTypes :
        /\ result' = Some(from_sql(T, P, ty, raw.buf))
        /\ target' = Some([T |-> T, P |-> P, ty |-> ty])
    /\ pc' = "converted"
    /\ UNCHANGED <<raw, value, out, wres, hex, origin, loops>>

\* value.as_ewkb().write_ewkb(&mut out), value being of type T
WriteEwkb(T) ==
    /\ pc = "value"
    /\ value[1].T = T
    /\ LET res == write_ewkb(as_ewkb(T, value[1].P, value[1].v), Sink(None))
       IN  /\ out' = res.w
           /\ wres' = Some(res.ok)
    /\ pc' = "written"
    /\ UNCHANGED <<raw, target, result, value, hex, origin, loops>>

\* value.as_ewkb().write_ewkb(&mut out), out being a sink that fails
WriteEwkbFailing(T) ==
    /\ pc = "value"
    /\ origin = "value"
    /\ value[1].T = T
    /\ \E sink \in FailingSinks :
        LET res == write_ewkb(as_ewkb(T, value[1].P, value[1].v), sink)
        IN  /\ out' = res.w
            /\ wres' = Some(res.ok)
    /\ pc' = "sunk"
    /\ UNCHANGED <<raw, target, result, value, hex, origin, loops>>

\* a second write that takes the srid out of the value it writes
WriteAgain_srid_taken(T) ==
    /\ pc \in {"written", "sunk"}
    /\ origin = "value"
    /\ value[1].T = T
    /\ LET res == write_ewkb(as_ewkb(T, value[1].P, value[1].v), Sink(None))
       IN  /\ out' = res.w
           /\ wres' = Some(res.ok)
    /\ value' = IF T = "GeometryT" THEN Some([value[1] EXCEPT !.v.geom.srid = None])
                ELSE Some([value[1] EXCEPT !.v.srid = None])
    /\ pc' = "rewritten"
    /\ UNCHANGED <<raw, target, result, hex, origin, loops>>

\* value.as_ewkb().write_ewkb(&mut out) once more, into a new Vec, after a
\* write that succeeded or failed
WriteAgain(T) ==
    /\ pc \in {"written", "sunk"}
    /\ origin = "value"
    /\ value[1].T = T
    /\ LET res == write_ewkb(as_ewkb(T, value[1].P, value[1].v), Sink(None))
       IN  /\ out' = res.w
           /\ wres' = Some(res.ok)
    /\ pc' = "rewritten"
    /\ UNCHANGED <<raw, target, result, value, hex, origin, loops>>

\* value.as_ewkb().to_hex_ewkb(), value being of type T and already written
\* to out
ToHexEwkb(T) ==
    /\ pc = "written"
    /\ wres = Some(TRUE)
    /\ value[1].T = T
    /\ hex' = Some(to_hex_ewkb(as_ewkb(T, value[1].P, value[1].v)))
    /\ pc' = "rendered"
    /\ UNCHANGED <<raw, target, result, value, out, wres, origin, loops>>

\* T::<P>::read_ewkb(&mut raw), raw being a strict prefix of the bytes written
\* for a value of type T with points P
ReadTruncated(T) ==
    /\ pc = "written"
    /\ wres = Some(TRUE)
    /\ origin = "value"
    /\ value[1] \in PlainValues
    /\ value[1].T = T
    /\ \E cut \in 0..(Len(out.buf) - 1) :
        LET res == read_ewkb(T, value[1].P, Reader(SubSeq(out.buf, 1, cut)))
        IN  /\ result' = Some([ok |-> res.ok,
                               val |-> IF res.ok THEN Some(res.val) ELSE None,
                               err |-> IF res.ok THEN None ELSE Some(res.err)])
            /\ raw' = res.rest
    /\ target' = Some([T |-> T, P |-> value[1].P])
    /\ origin' = "prefix"
    /\ pc' = "read"
    /\ UNCHANGED <<value, out, wres, hex, loops>>

\* T::<P>::read_ewkb(&mut raw), raw being the bytes written for a container of
\* type T with points P, with a count above the number of its items
ReadOverstated(T) ==
    /\ pc = "written"
    /\ wres = Some(TRUE)
    /\ origin = "value"
    /\ value[1] \in PlainValues
    /\ value[1].T = T
    /\ out.buf[2] \in 2..7
    /\ \E extra \in Overstatements :
        LET res == read_ewkb(T, value[1].P, Reader(Overstated(out.buf, extra)))
        IN  /\ result' = Some([ok |-> res.ok,
                               val |-> IF res.ok THEN Some(res.val) ELSE None,
                               err |-> IF res.ok THEN None ELSE Some(res.err)])
            /\ raw' = res.rest
    /\ target' = Some([T |-> T, P |-> value[1].P])
    /\ origin' = "overcount"
    /\ pc' = "read"
    /\ UNCHANGED <<value, out, wres, hex, loops>>

\* the bytes written are handed to a reader
Loopback ==
    /\ pc = "written"
    /\ wres = Some(TRUE)
    /\ raw' = Reader(out.buf)
    /\ pc' = "stream"
    /\ UNCHANGED <<target, result, value, out, wres, hex, origin, loops>>

\* the value decoded from a whole stream is handed to a writer
Adopt ==
    /\ pc = "read"
    /\ result[1].ok
    /\ Remaining(raw) = 0
    /\ \/ origin = "wire"
       \/ origin = "value" /\ target[1] = [T |-> value[1].T, P |-> value[1].P]
    /\ value' = Some([T |-> target[1].T, P |-> target[1].P, v |-> result[1].val[1]])
    /\ origin' = "decoded"
    /\ pc' = "value"
    /\ raw' = Reader(<< >>)
    /\ target' = None
    /\ result' = None
    /\ out' = Sink(None)
    /\ wres' = None
    /\ hex' = None
    /\ loops' = loops

\* read_ewkb is called on type T and runs up to its first loop iteration
Begin(T) ==
    /\ pc = "stream"
    /\ origin = "loop"
    /\ \/ T = "GeometryT"
       \/ /\ read_header(raw).ok
          /\ kind_of(read_header(raw).val.type_id) \in 1..7
          /\ T = TypeOfKind(kind_of(read_header(raw).val.type_id))
    /\ LET e == enter_read_ewkb(T, "Point", raw)
       IN  /\ raw' = e.rest
           /\ IF e.ok
              THEN /\ loops' = [loops EXCEPT !.frames = e.val]
                   /\ result' = None
                   /\ pc' = "loop"
              ELSE /\ loops' = loops
                   /\ result' = Some(Err(e.err, e.rest))
                   /\ pc' = "done"
    /\ target' = Some([T |-> T, P |-> "Point"])
    /\ UNCHANGED <<value, out, wres, hex, origin>>

\* one iteration of the innermost loop begins and reads its item; an error
\* ends the decode
Iterate ==
    /\ pc = "loop"
    /\ loops.frames # << >>
    /\ LET d == Len(loops.frames)
           f == loops.frames[d]
           e == read_item(f, target[1].P, raw)
       IN  /\ ~WordIsZero(f.left)
           /\ raw' = e.rest
           /\ IF e.ok
              THEN /\ loops' = [frames |-> [loops.frames EXCEPT ![d].left = WordDec(f.left)]
                                           \o e.val,
                                iters |-> loops.iters + 1]
                   /\ result' = None
                   /\ pc' = "loop"
              ELSE /\ loops' = [loops EXCEPT !.iters = loops.iters + 1]
                   /\ result' = Some(Err(e.err, e.rest))
                   /\ pc' = "done"
    /\ UNCHANGED <<target, value, out, wres, hex, origin>>

\* the innermost loop has run all its iterations: its read_ewkb_body returns
LoopEnd ==
    /\ pc = "loop"
    /\ loops.frames # << >>
    /\ WordIsZero(loops.frames[Len(loops.frames)].left)
    /\ loops' = [loops EXCEPT !.frames = SubSeq(loops.frames, 1, Len(loops.frames) - 1)]
    /\ UNCHANGED <<raw, target, result, value, out, wres, hex, origin, pc>>

\* no loop is left to run: read_ewkb returns Ok
Return ==
    /\ pc = "loop"
    /\ loops.frames = << >>
    /\ result' = Some([ok |-> TRUE, rest |-> raw])
    /\ pc' = "done"
    /\ UNCHANGED <<raw, target, value, out, wres, hex, origin, loops>>

Next ==
    \/ ReadEwkb("P")
    \/ ReadEwkb("LineStringT")
    \/ ReadEwkb("PolygonT")
    \/ ReadEwkb("MultiPointT")
    \/ ReadEwkb("MultiLineStringT")
    \/ ReadEwkb("MultiPolygonT")
    \/ ReadEwkb("GeometryT")
    \/ ReadEwkb("GeometryCollectionT")
    \/ ReadNext("P")
    \/ ReadNext("LineStringT")
    \/ ReadNext("PolygonT")
    \/ ReadNext("MultiPointT")
    \/ ReadNext("MultiLineStringT")
    \/ ReadNext("MultiPolygonT")
    \/ ReadNext("GeometryT")
    \/ ReadNext("GeometryCollectionT")
    \/ FromSql("P")
    \/ FromSql("LineStringT")
    \/ FromSql("PolygonT")
    \/ FromSql("MultiPointT")
    \/ FromSql("MultiLineStringT")
    \/ FromSql("MultiPolygonT")
    \/ FromSql("GeometryT")
    \/ FromSql("GeometryCollectionT")
    \/ ReadEwkbBody("P")
    \/ ReadEwkbBody("GeometryT")
    \/ WriteEwkb("P")
    \/ WriteEwkb("LineStringT")
    \/ WriteEwkb("PolygonT")
    \/ WriteEwkb("MultiPointT")
    \/ WriteEwkb("MultiLineStringT")
    \/ WriteEwkb("MultiPolygonT")
    \/ WriteEwkb("GeometryT")
    \/ WriteEwkb("GeometryCollectionT")
    \/ WriteEwkbFailing("P")
    \/ WriteEwkbFailing("LineStringT")
    \/ WriteEwkbFailing("PolygonT")
    \/ WriteEwkbFailing("MultiPointT")
    \/ WriteEwkbFailing("MultiLineStringT")
    \/ WriteEwkbFailing("MultiPolygonT")
    \/ WriteEwkbFailing("GeometryT")
    \/ WriteEwkbFailing("GeometryCollectionT")
    \/ WriteAgain("P")
    \/ WriteAgain("LineStringT")
    \/ WriteAgain("PolygonT")
    \/ WriteAgain("MultiPointT")
    \/ WriteAgain("MultiLineStringT")
    \/ WriteAgain("MultiPolygonT")
    \/ WriteAgain("GeometryT")
    \/ WriteAgain("GeometryCollectionT")
    \/ ToHexEwkb("P")
    \/ ToHexEwkb("LineStringT")
    \/ ToHexEwkb("PolygonT")
    \/ ToHexEwkb("MultiPointT")
    \/ ToHexEwkb("MultiLineStringT")
    \/ ToHexEwkb("MultiPolygonT")
    \/ ToHexEwkb("GeometryT")
    \/ ToHexEwkb("GeometryCollectionT")
    \/ ReadTruncated("P")
    \/ ReadTruncated("LineStringT")
    \/ ReadTruncated("PolygonT")
    \/ ReadTruncated("MultiPointT")
    \/ ReadTruncated("MultiLineStringT")
    \/ ReadTruncated("MultiPolygonT")
    \/ ReadTruncated("GeometryT")
    \/ ReadTruncated("GeometryCollectionT")
    \/ ReadOverstated("LineStringT")
    \/ ReadOverstated("PolygonT")
    \/ ReadOverstated("MultiPointT")
    \/ ReadOverstated("MultiLineStringT")
    \/ ReadOverstated("MultiPolygonT")
    \/ ReadOverstated("GeometryT")
    \/ ReadOverstated("GeometryCollectionT")
    \/ Loopback
    \/ Adopt

Spec == Init /\ [][Next]_vars

\* a decode followed through its loops
InitLoop ==
    /\ \E bytes \in LoopInputs : raw = Reader(bytes)
    /\ origin = "loop"
    /\ pc = "stream"
    /\ value = None
    /\ target = None
    /\ result = None
    /\ out = Sink(None)
    /\ wres = None
    /\ hex = None
    /\ loops = NoLoops

NextLoop ==
    \/ Begin("P")
    \/ Begin("LineStringT")
    \/ Begin("PolygonT")
    \/ Begin("MultiPointT")
    \/ Begin("MultiLineStringT")
    \/ Begin("MultiPolygonT")
    \/ Begin("GeometryCollectionT")
    \/ Begin("GeometryT")
    \/ Iterate
    \/ LoopEnd
    \/ Return

\* the decoder is sequential code that nothing suspends: a step that can be
\* taken is taken
SpecLoop == InitLoop /\ [][NextLoop]_vars /\ WF_vars(NextLoop)

TypeOK ==
    /\ pc \in {"stream", "read", "body_read", "panicked", "value", "written",
              "rendered", "converted", "sunk", "rewritten", "read_next"}
    /\ loops = NoLoops
    /\ hex # None <=> pc = "rendered"
    /\ origin \in {"wire", "mixed", "concat", "value", "decoded", "prefix", "overcount"}
    /\ raw.pos \in 0..Len(raw.buf)

-----------------------------------------------------------------------------
(* Properties *)

MultiTypes == {"MultiPointT", "MultiLineStringT", "MultiPolygonT"}

TypedContainers == MultiTypes \cup {"GeometryCollectionT"}

InlineContainers == {"LineStringT", "PolygonT"}

\* a read as type T has returned a value
ReadOk(T) == pc = "read" /\ target[1].T = T /\ result[1].ok

\* a read as one of the types TT has returned a value
ReadOkAmong(TT) == pc = "read" /\ target[1].T \in TT /\ result[1].ok

\* the value a read has returned
Decoded == result[1].val[1]

\* the concrete type and value of v of type T: what a GeometryT holds
ConcreteOf(T, v) ==
    IF T = "GeometryT" THEN [T |-> TypeOfVariant(v.variant), g |-> v.geom]
    ELSE [T |-> T, g |-> v]

\* the elements of a typed-element container, each with its type
ElementsOf(T, g) ==
    CASE T = "MultiPointT" -> [i \in DOMAIN g.points |-> [T |-> "P", g |-> g.points[i]]]
      [] T = "MultiLineStringT" ->
             [i \in DOMAIN g.lines |-> [T |-> "LineStringT", g |-> g.lines[i]]]
      [] T = "MultiPolygonT" ->
             [i \in DOMAIN g.polygons |-> [T |-> "PolygonT", g |-> g.polygons[i]]]
      [] T = "GeometryCollectionT" ->
             [i \in DOMAIN g.geometries |-> ConcreteOf("GeometryT", g.geometries[i])]
      [] OTHER -> << >>

\* the srids of what an inline container holds: the points of a LineStringT,
\* the rings of a PolygonT and their points
InlineSrids(T, g) ==
    CASE T = "LineStringT" -> {g.points[i].srid : i \in DOMAIN g.points}
      [] T = "PolygonT" ->
             {g.rings[i].srid : i \in DOMAIN g.rings}
             \cup UNION {{g.rings[i].points[j].srid : j \in DOMAIN g.rings[i].points} :
                            i \in DOMAIN g.rings}
      [] OTHER -> {}

\* e, an element of a typed-element container, and what it holds inline have
\* no srid
ElementWithoutSrid(e) == {e.g.srid} \cup InlineSrids(e.T, e.g) = {None}

\* C1 as stated: every element of a MultiPointT, MultiLineStringT,
\* MultiPolygonT or GeometryCollectionT returned by read_ewkb, and every point
\* and ring inside a LineString or Polygon element, has srid None, whatever
\* the byte stream
ElementsDecodedWithoutSrid ==
    ReadOkAmong(TypedContainers) =>
        \A i \in DOMAIN ElementsOf(target[1].T, Decoded) :
            ElementWithoutSrid(ElementsOf(target[1].T, Decoded)[i])

\* the stream read has typed elements whose headers all have the SRID flag
\* clear: it came off the wire so, or the encoder wrote it
PlainElementStream ==
    \/ origin = "wire" /\ raw.buf \in PlainElementInputs
    \/ origin # "wire" /\ WireKind(raw.buf) \in 4..7

\* C1 amended: when the headers of the elements have the SRID flag clear,
\* every element of a MultiPointT, MultiLineStringT, MultiPolygonT or
\* GeometryCollectionT returned by read_ewkb, and every point and ring inside a
\* LineString or Polygon element, has srid None, whatever the container's srid
PlainElementsDecodedWithoutSrid ==
    (ReadOkAmong(TypedContainers) /\ PlainElementStream) =>
        \A i \in DOMAIN ElementsOf(target[1].T, Decoded) :
            ElementWithoutSrid(ElementsOf(target[1].T, Decoded)[i])

\* a MultiLineString with an SRID and MaxItems plain elements has been decoded
PlainElementsDecodedWitness ==
    /\ ReadOk("MultiLineStringT")
    /\ origin = "wire"
    /\ raw.buf \in PlainElementInputs
    /\ Decoded.srid # None
    /\ Len(Decoded.lines) = MaxItems
    /\ Len(Decoded.lines[1].points) = InnerItems

\* C2: a GeometryCollection whose header carries an SRID is decoded, by
\* GeometryCollectionT::read_ewkb or by GeometryT::read_ewkb, with that srid,
\* and with srid None when the header has the SRID flag clear
CollectionSridDecoded ==
    (/\ ReadOkAmong({"GeometryCollectionT", "GeometryT"})
     /\ origin = "wire"
     /\ raw.buf \in CollectionInputs) =>
        ConcreteOf(target[1].T, Decoded).g.srid = WireSrid(raw.buf)

\* C3: a MultiPointT, MultiLineStringT or MultiPolygonT is decoded, by its own
\* read_ewkb or by GeometryT::read_ewkb, with the srid of its own header, and
\* with srid None when that header has the SRID flag clear
MultiSridDecoded ==
    (/\ ReadOkAmong(MultiTypes \cup {"GeometryT"})
     /\ ConcreteOf(target[1].T, Decoded).T \in MultiTypes) =>
        ConcreteOf(target[1].T, Decoded).g.srid = WireSrid(raw.buf)

\* a MultiPolygon with an SRID, whose elements carry another, has been decoded
MultiSridDecodedWitness ==
    /\ ReadOk("MultiPolygonT")
    /\ Decoded.srid # None
    /\ Len(Decoded.polygons) = MaxItems
    /\ Decoded.polygons[1].srid \notin {None, Decoded.srid}

\* C4: every point of a decoded LineStringT, and every ring of a decoded
\* PolygonT and every point of every ring, has the srid of the LineStringT or
\* PolygonT, which is the srid of its header
InlineSridInherited ==
    /\ (/\ ReadOkAmong(InlineContainers \cup {"GeometryT"})
        /\ ConcreteOf(target[1].T, Decoded).T \in InlineContainers) =>
           /\ ConcreteOf(target[1].T, Decoded).g.srid = WireSrid(raw.buf)
           /\ InlineSrids(ConcreteOf(target[1].T, Decoded).T,
                          ConcreteOf(target[1].T, Decoded).g)
                  \subseteq {WireSrid(raw.buf)}
    /\ ReadOkAmong(TypedContainers) =>
           \A i \in DOMAIN ElementsOf(target[1].T, Decoded) :
               InlineSrids(ElementsOf(target[1].T, Decoded)[i].T,
                           ElementsOf(target[1].T, Decoded)[i].g)
                   \subseteq {ElementsOf(target[1].T, Decoded)[i].g.srid}

\* a Polygon with an SRID and MaxItems rings has been decoded off the wire
InlineSridInheritedWitness ==
    /\ ReadOk("PolygonT")
    /\ origin = "wire"
    /\ Decoded.srid # None
    /\ Len(Decoded.rings) = MaxItems
    /\ Len(Decoded.rings[1].points) = InnerItems

RECURSIVE Sum(_)
Sum(ns) == IF ns = << >> THEN 0 ELSE Head(ns) + Sum(Tail(ns))

\* the bytes of the coordinates of a point of type P
PointSize(P) ==
    16 + (IF P \in {"PointZ", "PointZM"} THEN 8 ELSE 0)
       + (IF P \in {"PointM", "PointZM"} THEN 8 ELSE 0)

\* the bytes of the body of g of type T when each element of a typed-element
\* container is written with a header of five bytes, that is without an SRID
RECURSIVE BodySize(_, _, _)
BodySize(T, P, g) ==
    CASE T = "P" -> PointSize(P)
      [] T = "LineStringT" -> 4 + Len(g.points) * PointSize(P)
      [] T = "PolygonT" ->
             4 + Sum([i \in DOMAIN g.rings |-> BodySize("LineStringT", P, g.rings[i])])
      [] OTHER ->
             4 + Sum([i \in DOMAIN ElementsOf(T, g) |->
                         5 + BodySize(ElementsOf(T, g)[i].T, P, ElementsOf(T, g)[i].g)])

\* where the headers of the elements of g, at every nesting level, start when
\* the body of g starts after the first `at` bytes
RECURSIVE ElementOffsets(_, _, _, _)
ElementOffsets(T, P, g, at) ==
    UNION {
        LET e == ElementsOf(T, g)
            off == at + 4 + Sum([j \in 1..(i - 1) |-> 5 + BodySize(e[j].T, P, e[j].g)])
        IN  {off} \cup ElementOffsets(e[i].T, P, e[i].g, off + 5) :
        i \in DOMAIN ElementsOf(T, g)}

\* the bytes of the header of g
HeaderSize(g) == 5 + (IF is_some(g.srid) THEN 4 ELSE 0)

\* C5: write_ewkb writes every element of a MultiPoint, MultiLineString,
\* MultiPolygon or GeometryCollection, at every nesting level, with a header
\* whose SRID flag is clear and that no SRID field follows, whatever srid the
\* element has in memory: the only SRID field written is that of the header of
\* the whole
ElementsWrittenWithoutSrid ==
    (/\ pc = "written"
     /\ ConcreteOf(value[1].T, value[1].v).T \in TypedContainers) =>
        LET c == ConcreteOf(value[1].T, value[1].v)
        IN  /\ wres = Some(TRUE)
            /\ Len(out.buf) = HeaderSize(c.g) + BodySize(c.T, value[1].P, c.g)
            /\ \A off \in ElementOffsets(c.T, value[1].P, c.g, HeaderSize(c.g)) :
                   (out.buf[off + 5] \div 32) % 2 = 0

\* a GeometryCollection with an srid has been written whose first element is
\* a MultiPolygon with another srid, as have the polygons of that
ElementsWrittenWitness ==
    /\ pc = "written"
    /\ value[1].T = "GeometryCollectionT"
    /\ value[1].v.srid # None
    /\ Len(value[1].v.geometries) = MaxItems
    /\ value[1].v.geometries[1].variant = "MultiPolygon"
    /\ value[1].v.geometries[1].geom.srid \notin {None, value[1].v.srid}
    /\ value[1].v.geometries[1].geom.polygons[1].srid # None

\* C6: a point of any of the four point types, with or without an srid, that
\* is written by write_ewkb and read back as the same type is read back as it
\* was: the same coordinates and the same srid
PointRoundTrip ==
    (/\ pc = "read"
     /\ origin = "value"
     /\ value[1].T = "P"
     /\ target[1] = [T |-> "P", P |-> value[1].P]) =>
        result[1].ok /\ Decoded = value[1].v

\* a PointZM with an srid has been written and read back
PointRoundTripWitness ==
    /\ ReadOk("P")
    /\ origin = "value"
    /\ value[1].T = "P"
    /\ value[1].P = "PointZM"
    /\ target[1].P = "PointZM"
    /\ value[1].v.srid # None

\* the kind byte and the flags byte of the header that starts after the first
\* `at` bytes of a stream, and where what follows that header starts; a
\* stream that ends before the type id of that header has the kind -1
KindAt(bytes, at) ==
    IF Len(bytes) < at + 5 THEN -1
    ELSE IF bytes[at + 1] = 0 THEN bytes[at + 5] ELSE bytes[at + 2]

FlagsAt(bytes, at) ==
    IF Len(bytes) < at + 5 THEN 0
    ELSE IF bytes[at + 1] = 0 THEN bytes[at + 2] ELSE bytes[at + 5]

HeaderEnd(bytes, at) == at + 5 + (IF (FlagsAt(bytes, at) \div 32) % 2 = 1 THEN 4 ELSE 0)

\* the header of the stream announces a z, an m
WireZ(bytes) == (FlagsAt(bytes, 0) \div 128) % 2 = 1

WireM(bytes) == (FlagsAt(bytes, 0) \div 64) % 2 = 1

\* the count that follows the first header of a stream, when below 256
WireCount(bytes) ==
    IF bytes[1] = 0 THEN bytes[HeaderEnd(bytes, 0) + 4] ELSE bytes[HeaderEnd(bytes, 0) + 1]

\* C7: a point whose header announces z or m is read into any point type: the
\* read succeeds, returns the x, y and srid on the wire and the z and m on the
\* wire that the type has, and consumes every coordinate; a LineString read as
\* LineStringT yields the x and y of every point in order; and the value so
\* decoded, written and read back as the same type, is read back as it was
LossyDownRead ==
    /\ (pc = "read" /\ origin = "wire" /\ raw.buf \in PointInputs /\ target[1].T = "P") =>
           /\ result[1].ok
           /\ Decoded.x = F(0)
           /\ Decoded.y = F(1)
           /\ Decoded.srid = WireSrid(raw.buf)
           /\ ("z" \in DOMAIN Decoded /\ WireZ(raw.buf)) => Decoded.z = F(2)
           /\ ("m" \in DOMAIN Decoded /\ WireM(raw.buf)) => Decoded.m = F(3)
           /\ Remaining(raw) = 0
    /\ (/\ pc = "read"
        /\ origin = "wire"
        /\ raw.buf \in InlineInputs
        /\ KindAt(raw.buf, 0) = 2
        /\ target[1].T = "LineStringT") =>
           /\ result[1].ok
           /\ Len(Decoded.points) = WireCount(raw.buf)
           /\ \A i \in DOMAIN Decoded.points :
                  /\ Decoded.points[i].x = F(4 * (i - 1))
                  /\ Decoded.points[i].y = F(4 * (i - 1) + 1)
           /\ Remaining(raw) = 0
    /\ (pc = "read" /\ origin = "decoded" /\ value[1].T \in {"P", "LineStringT"}) =>
           result[1].ok /\ Decoded = value[1].v

\* a LineString of MaxItems points with z and m has been read as
\* LineStringT<Point>
LossyDownReadWitness ==
    /\ ReadOk("LineStringT")
    /\ origin = "wire"
    /\ target[1].P = "Point"
    /\ raw.buf \in InlineInputs
    /\ KindAt(raw.buf, 0) = 2
    /\ WireZ(raw.buf)
    /\ WireM(raw.buf)
    /\ Len(Decoded.points) = MaxItems

\* the kind of the type T
KindOfType(T) == CHOOSE k \in 1..7 : TypeOfKind(k) = T

\* C8: the type id the encoder builds for a geometry of any kind 1..7, with
\* or without srid, z and m, is decoded by the reader to that kind, and its
\* three flags to whether there is an srid, a z and an m
TypeIdBitsIndependent ==
    pc = "written" =>
        LET c == ConcreteOf(value[1].T, value[1].v)
            word == type_id(as_ewkb(value[1].T, value[1].P, value[1].v))
        IN  /\ kind_of(word) = KindOfType(c.T)
            /\ has_srid(word) = is_some(c.g.srid)
            /\ has_z(word) = (value[1].P \in {"PointZ", "PointZM"})
            /\ has_m(word) = (value[1].P \in {"PointM", "PointZM"})

\* a MultiPolygon of PointM without srid has been written
TypeIdBitsWitness ==
    /\ pc = "written"
    /\ value[1].T = "MultiPolygonT"
    /\ value[1].P = "PointM"
    /\ value[1].v.srid = None

\* C9: GeometryT::read_ewkb of a stream whose kind byte is k in 1..7 does
\* what read_ewkb of the k-th of P, LineStringT, PolygonT, MultiPointT,
\* MultiLineStringT, MultiPolygonT, GeometryCollectionT does on the same bytes,
\* and wraps the value in the k-th variant; the elements of a
\* GeometryCollectionT are what GeometryT::read_ewkb reads one after the other
GeometryDispatch ==
    /\ (pc = "read" /\ target[1].T = "GeometryT" /\ KindAt(raw.buf, 0) \in 1..7) =>
           LET k == KindAt(raw.buf, 0)
               c == read_ewkb(TypeOfKind(k), target[1].P, Reader(raw.buf))
           IN  /\ result[1].ok = c.ok
               /\ raw = c.rest
               /\ c.ok => Decoded = GeometryT(VariantOfKind(k), c.val)
               /\ ~c.ok => result[1].err = Some(c.err)
    /\ ReadOk("GeometryCollectionT") =>
           LET at == HeaderEnd(raw.buf, 0)
               size == WWord(raw.buf[1], SubSeq(raw.buf, at + 1, at + 4))
               each == multitype_read_items("GeometryT", target[1].P,
                                            [buf |-> raw.buf, pos |-> at + 4], size, << >>)
           IN  each.ok /\ each.val = Decoded.geometries /\ each.rest = raw

\* GeometryT::read_ewkb has returned a GeometryCollection of MaxItems
\* elements, the first a MultiPolygon
GeometryDispatchWitness ==
    /\ ReadOk("GeometryT")
    /\ Decoded.variant = "GeometryCollection"
    /\ Len(Decoded.geom.geometries) = MaxItems
    /\ Decoded.geom.geometries[1].variant = "MultiPolygon"

\* the read has failed on an unsupported kind and has read nothing after the
\* first `at` bytes
Rejected(at) ==
    /\ ~result[1].ok
    /\ result[1].err = Some(ErrUnsupported)
    /\ result[1].val = None
    /\ raw.pos <= at

\* a GeometryCollection is being read whose first element has a type id
CollectionElementRead ==
    /\ \/ target[1].T = "GeometryCollectionT"
       \/ target[1].T = "GeometryT" /\ KindAt(raw.buf, 0) = 7
    /\ Len(raw.buf) >= HeaderEnd(raw.buf, 0) + 9
    /\ SubSeq(raw.buf, HeaderEnd(raw.buf, 0) + 1, HeaderEnd(raw.buf, 0) + 4) # <<0, 0, 0, 0>>

\* C10 as stated: when the kind byte of the type id read by
\* GeometryT::read_ewkb, or of the header of an element of a
\* GeometryCollection, is outside 1..7, the read fails with the unsupported
\* kind error, returns no value and reads nothing more
UnsupportedKindRejected ==
    /\ (pc = "read" /\ target[1].T = "GeometryT" /\ KindAt(raw.buf, 0) \notin 1..7) =>
           Rejected(HeaderEnd(raw.buf, 0))
    /\ (/\ pc = "read"
        /\ CollectionElementRead
        /\ KindAt(raw.buf, HeaderEnd(raw.buf, 0) + 4) \notin 1..7) =>
           Rejected(HeaderEnd(raw.buf, HeaderEnd(raw.buf, 0) + 4))

\* C10 amended: when that kind byte is outside 1..7 and the SRID field its
\* header announces, if any, is there to read, the read fails with the
\* unsupported kind error, returns no value and reads nothing after that
\* header and its SRID field
UnsupportedKindRejectedAfterHeader ==
    /\ (/\ pc = "read"
        /\ target[1].T = "GeometryT"
        /\ KindAt(raw.buf, 0) \notin 1..7
        /\ Len(raw.buf) >= HeaderEnd(raw.buf, 0)) =>
           Rejected(HeaderEnd(raw.buf, 0)) /\ raw.pos = HeaderEnd(raw.buf, 0)
    /\ (/\ pc = "read"
        /\ CollectionElementRead
        /\ KindAt(raw.buf, HeaderEnd(raw.buf, 0) + 4) \notin 1..7
        /\ Len(raw.buf) >= HeaderEnd(raw.buf, HeaderEnd(raw.buf, 0) + 4)) =>
           /\ Rejected(HeaderEnd(raw.buf, HeaderEnd(raw.buf, 0) + 4))
           /\ raw.pos = HeaderEnd(raw.buf, HeaderEnd(raw.buf, 0) + 4)

\* GeometryCollectionT::read_ewkb has failed on the header, with an SRID, of
\* the first of MaxItems elements
UnsupportedKindWitness ==
    /\ pc = "read"
    /\ target[1].T = "GeometryCollectionT"
    /\ raw.buf \in CollectionInputs
    /\ WireCount(raw.buf) = MaxItems
    /\ KindAt(raw.buf, HeaderEnd(raw.buf, 0) + 4) \notin 1..7
    /\ HeaderEnd(raw.buf, HeaderEnd(raw.buf, 0) + 4) = HeaderEnd(raw.buf, 0) + 13
    /\ Rejected(HeaderEnd(raw.buf, 0) + 13)


\* C11: read_ewkb_body called on GeometryT returns an error value to its
\* caller and does not panic
GenericBodyReadReturnsError ==
    (pc \in {"body_read", "panicked"} /\ target[1].T = "GeometryT") =>
        pc = "body_read" /\ result # None /\ ~result[1].ok

\* C12: read_ewkb of a strict prefix, the empty one included, of the bytes
\* written for a value of any type fails with the read error and returns no
\* value
TruncationFails ==
    (pc = "read" /\ origin = "prefix") =>
        /\ ~result[1].ok
        /\ result[1].err = Some(ErrIo)
        /\ result[1].val = None

\* the bytes written for a GeometryCollection of MaxItems elements have been
\* read without the last of them
TruncationFailsWitness ==
    /\ pc = "read"
    /\ origin = "prefix"
    /\ target[1].T = "GeometryCollectionT"
    /\ Len(value[1].v.geometries) = MaxItems
    /\ Len(raw.buf) = Len(out.buf) - 1
    /\ ~result[1].ok

\* a LineStringT<Point> has been written and its bytes read as PolygonT<Point>
LineStringReadAsPolygon ==
    /\ pc = "read"
    /\ origin = "value"
    /\ value[1].T = "LineStringT"
    /\ value[1].P = "Point"
    /\ target[1] = [T |-> "PolygonT", P |-> "Point"]

\* the u32 word w is at least n, n below 256
WordAtLeast(w, n) == w[1] > 0 \/ w[2] > 0 \/ w[3] > 0 \/ w[4] >= n

\* the low half of the bits of the f64 x is a count of at least n, or zero
\* and the high half is one
HalvesCountAtLeast(x, n) ==
    \/ WordAtLeast(SubSeq(x, 5, 8), n)
    \/ WordIsZero(SubSeq(x, 5, 8)) /\ WordAtLeast(SubSeq(x, 1, 4), n)

\* C13 as stated: PolygonT::<Point>::read_ewkb of the bytes written for any
\* LineStringT<Point> fails with the read error
LineStringAsPolygonFails ==
    LineStringReadAsPolygon =>
        ~result[1].ok /\ result[1].err = Some(ErrIo)

\* C13 amended: PolygonT::<Point>::read_ewkb of the bytes written for a
\* LineStringT<Point> of n >= 2 points fails with the read error when the low
\* half of the bits of the first x, or the high half when the low half is
\* zero, is at least n
LongLineStringAsPolygonFails ==
    (/\ LineStringReadAsPolygon
     /\ Len(value[1].v.points) >= 2
     /\ HalvesCountAtLeast(value[1].v.points[1].x, Len(value[1].v.points))) =>
        ~result[1].ok /\ result[1].err = Some(ErrIo)

\* the bytes of a LineStringT<Point> of two points or more have been read as a
\* PolygonT<Point>
LongLineStringAsPolygonWitness ==
    /\ LineStringReadAsPolygon
    /\ Len(value[1].v.points) >= 2
    /\ Len(value[1].v.points) = MaxItems
    /\ HalvesCountAtLeast(value[1].v.points[1].x, MaxItems)
    /\ value[1].v.srid # None
    /\ ~result[1].ok

\* the SRID field of the header that starts after the first `at` bytes
SridAt(bytes, at) ==
    IF (FlagsAt(bytes, at) \div 32) % 2 = 1
    THEN Some(I32OfWord(WWord(bytes[at + 1], SubSeq(bytes, at + 6, at + 9))))
    ELSE None

\* the shape of the body a kind byte stands for in the streams off the wire
ShapeOfKind(kind) == IF kind \in 1..7 THEN kind ELSE 1

\* the stream off the wire `bytes` with the order byte ord in its first header
\* and eord in the headers of its elements
Rewire(bytes, ord, eord) ==
    LET shape == ShapeOfKind(KindAt(bytes, 0))
        n == IF shape = 1 THEN 0 ELSE WireCount(bytes)
        at == HeaderEnd(bytes, 0) + 4
        typed == shape >= 4 /\ n >= 1
    IN  Wire(shape, KindAt(bytes, 0), ord, WireZ(bytes), WireM(bytes), SridAt(bytes, 0), n,
             IF ~typed THEN 1
             ELSE IF shape = 7 THEN ShapeOfKind(KindAt(bytes, at)) ELSE shape - 3,
             IF typed THEN KindAt(bytes, at) ELSE 1,
             eord,
             IF typed THEN SridAt(bytes, at) ELSE None)

\* the order byte of the elements of a stream off the wire
ElementOrder(bytes) ==
    IF ShapeOfKind(KindAt(bytes, 0)) >= 4 /\ WireCount(bytes) >= 1
    THEN bytes[HeaderEnd(bytes, 0) + 5]
    ELSE 1

\* a whole geometry off the wire has been read as the type it is meant for,
\* or as GeometryT
WholeStreamRead ==
    /\ pc = "read"
    /\ origin = "wire"
    /\ raw.buf \notin TruncatedInputs
    /\ target[1].T \in {NaturalType(raw.buf), "GeometryT"}

\* C14: read_ewkb takes the order byte 0 as big-endian and every other as
\* little-endian: a geometry in little-endian under whatever non-zero order
\* bytes, and the same geometry in big-endian under the order byte 0, are read
\* to the same result
ByteOrderSelected ==
    WholeStreamRead =>
        LET big == read_ewkb(target[1].T, target[1].P, Reader(Rewire(raw.buf, 0, 0)))
        IN  /\ Rewire(raw.buf, raw.buf[1], ElementOrder(raw.buf)) = raw.buf
            /\ big.ok = result[1].ok
            /\ big.ok => big.val = Decoded
            /\ ~big.ok => Some(big.err) = result[1].err

\* a MultiPolygon of MaxItems polygons under the order byte 255, the polygons
\* under 2, has been read
ByteOrderSelectedWitness ==
    /\ WholeStreamRead
    /\ ReadOk("MultiPolygonT")
    /\ raw.buf[1] = 255
    /\ ElementOrder(raw.buf) = 2
    /\ Len(Decoded.polygons) = MaxItems
    /\ Decoded.srid # None
    /\ Len(Decoded.polygons[1].rings[1].points) = InnerItems

\* the four bytes of n, 0 <= n < 2^31, least significant first
LittleEndian(n) == <<n % 256, (n \div 256) % 256, (n \div 65536) % 256, n \div 16777216>>

\* the flags byte of the type id of a geometry with points P and the srid
FlagsByte(P, srid) ==
    (IF is_some(srid) THEN 32 ELSE 0)
    + (IF P \in {"PointZ", "PointZM"} THEN 128 ELSE 0)
    + (IF P \in {"PointM", "PointZM"} THEN 64 ELSE 0)

\* C15: write_ewkb writes the order byte 1, then the type id little-endian,
\* which is the kind with 0x20000000 iff there is an srid, 0x80000000 iff the
\* points are PointZ or PointZM, 0x40000000 iff they are PointM or PointZM,
\* then the srid little-endian iff there is one, then the body
HeaderWritten ==
    pc = "written" =>
        LET c == ConcreteOf(value[1].T, value[1].v)
        IN  /\ wres = Some(TRUE)
            /\ out.buf[1] = 1
            /\ SubSeq(out.buf, 2, 5)
                   = <<KindOfType(c.T), 0, 0, FlagsByte(value[1].P, c.g.srid)>>
            /\ is_some(c.g.srid) => SubSeq(out.buf, 6, 9) = LittleEndian(c.g.srid[1])
            /\ Len(out.buf) = HeaderSize(c.g) + BodySize(c.T, value[1].P, c.g)

\* a PolygonT<PointZM> with an srid and MaxItems rings has been written
HeaderWrittenWitness ==
    /\ pc = "written"
    /\ value[1].T = "PolygonT"
    /\ value[1].P = "PointZM"
    /\ value[1].v.srid # None
    /\ Len(value[1].v.rings) = MaxItems

\* the coordinates of the point p, each little-endian
CoordsLE(p) ==
    Reverse(p.x) \o Reverse(p.y)
    \o (IF "z" \in DOMAIN p THEN Reverse(p.z) ELSE << >>)
    \o (IF "m" \in DOMAIN p THEN Reverse(p.m) ELSE << >>)

\* a count and the coordinates of the points of the line l, nothing else
LineBodyLE(l) ==
    LittleEndian(Len(l.points)) \o Concat([i \in DOMAIN l.points |-> CoordsLE(l.points[i])])

\* a count and the bodies of the rings of the polygon g, nothing else
PolygonBodyLE(g) ==
    LittleEndian(Len(g.rings)) \o Concat([i \in DOMAIN g.rings |-> LineBodyLE(g.rings[i])])

\* the coordinates a point of type P has
Dimensions(P) == PointSize(P) \div 8

\* what write_ewkb has written after the header of g
BodyWritten(g) == SubSeq(out.buf, HeaderSize(g) + 1, Len(out.buf))

\* C16: the body written for a LineString is the little-endian count of its
\* points and then the coordinates of each point, with no order byte, type id
\* or srid of its own; the body written for a Polygon is the count of its rings
\* and then, for each ring, the count of its points and their coordinates; so a
\* LineString of n points of d coordinates is written in 9 + 4 (if it has an
\* srid) + 8 * d * n bytes
InlineBodyWritten ==
    pc = "written" =>
        LET c == ConcreteOf(value[1].T, value[1].v)
        IN  /\ c.T = "LineStringT" =>
                   /\ BodyWritten(c.g) = LineBodyLE(c.g)
                   /\ Len(out.buf) = 9 + (IF is_some(c.g.srid) THEN 4 ELSE 0)
                                       + 8 * Dimensions(value[1].P) * Len(c.g.points)
            /\ c.T = "PolygonT" => BodyWritten(c.g) = PolygonBodyLE(c.g)

\* a LineStringT<PointZ> of MaxItems points with an srid, the points with
\* another, has been written
InlineBodyWrittenWitness ==
    /\ pc = "written"
    /\ value[1].T = "LineStringT"
    /\ value[1].P = "PointZ"
    /\ value[1].v.srid # None
    /\ Len(value[1].v.points) = MaxItems
    /\ value[1].v.points[1].srid \notin {None, value[1].v.srid}

\* an element as a whole geometry: the order byte 1, the type id of the kind
\* with the z and m flags of P, little-endian, and the body
ElementLE(kind, P, body) == <<1, kind, 0, 0, FlagsByte(P, None)>> \o body

\* C17: the body written for a MultiPoint, MultiLineString or MultiPolygon is
\* the little-endian count of its elements and then each element as a whole
\* geometry: the order byte 1, the type id of kind 1, 2 or 3 with the z and m
\* flags of the container, and the body of the element; so a MultiPoint of n
\* points of d coordinates is written in 9 + 4 (if it has an srid)
\* + n * (5 + 8 * d) bytes
TypedBodyWritten ==
    pc = "written" =>
        LET c == ConcreteOf(value[1].T, value[1].v)
            P == value[1].P
        IN  /\ c.T = "MultiPointT" =>
                   /\ BodyWritten(c.g) =
                          LittleEndian(Len(c.g.points))
                          \o Concat([i \in DOMAIN c.g.points |->
                                        ElementLE(1, P, CoordsLE(c.g.points[i]))])
                   /\ Len(out.buf) = 9 + (IF is_some(c.g.srid) THEN 4 ELSE 0)
                                       + Len(c.g.points) * (5 + 8 * Dimensions(P))
            /\ c.T = "MultiLineStringT" =>
                   BodyWritten(c.g) =
                       LittleEndian(Len(c.g.lines))
                       \o Concat([i \in DOMAIN c.g.lines |->
                                     ElementLE(2, P, LineBodyLE(c.g.lines[i]))])
            /\ c.T = "MultiPolygonT" =>
                   BodyWritten(c.g) =
                       LittleEndian(Len(c.g.polygons))
                       \o Concat([i \in DOMAIN c.g.polygons |->
                                     ElementLE(3, P, PolygonBodyLE(c.g.polygons[i]))])

\* a MultiLineStringT<PointZM> of MaxItems lines with an srid has been written
TypedBodyWrittenWitness ==
    /\ pc = "written"
    /\ value[1].T = "MultiLineStringT"
    /\ value[1].P = "PointZM"
    /\ value[1].v.srid # None
    /\ Len(value[1].v.lines) = MaxItems
    /\ Len(value[1].v.lines[1].points) = InnerItems

\* the characters 0-9 and A-F
HexChars ==
    {"0", "1", "2", "3", "4", "5", "6", "7", "8", "9", "A", "B", "C", "D", "E", "F"}

\* the value of a hexadecimal digit
HexValue(c) ==
    CASE c = "0" -> 0 [] c = "1" -> 1 [] c = "2" -> 2 [] c = "3" -> 3
      [] c = "4" -> 4 [] c = "5" -> 5 [] c = "6" -> 6 [] c = "7" -> 7
      [] c = "8" -> 8 [] c = "9" -> 9 [] c = "A" -> 10 [] c = "B" -> 11
      [] c = "C" -> 12 [] c = "D" -> 13 [] c = "E" -> 14 [] c = "F" -> 15

\* C18: the String returned by to_hex_ewkb is the bytes written by write_ewkb
\* for the same value, two hexadecimal digits per byte in order, the high one
\* first: it is twice as long as the bytes, every character is one of 0-9 and
\* A-F, and nothing is put before or between the digits
HexOfWrittenBytes ==
    pc = "rendered" =>
        /\ Len(hex[1]) = 2 * Len(out.buf)
        /\ \A j \in DOMAIN hex[1] : hex[1][j] \in HexChars
        /\ \A i \in DOMAIN out.buf :
               16 * HexValue(hex[1][2 * i - 1]) + HexValue(hex[1][2 * i]) = out.buf[i]

\* a MultiPointT with an srid has been rendered: its bytes have a byte below
\* 16 and a byte whose high digit is above 9
HexOfWrittenBytesWitness ==
    /\ pc = "rendered"
    /\ value[1].T = "MultiPointT"
    /\ value[1].v.srid # None
    /\ \E i \in DOMAIN out.buf : out.buf[i] < 16 /\ out.buf[i] > 0
    /\ \E i \in DOMAIN out.buf : out.buf[i] \div 16 > 9

\* the items of a container of type T
ItemsOf(T, g) ==
    CASE T = "LineStringT" -> g.points
      [] T = "PolygonT" -> g.rings
      [] T = "MultiPointT" -> g.points
      [] T = "MultiLineStringT" -> g.lines
      [] T = "MultiPolygonT" -> g.polygons
      [] T = "GeometryCollectionT" -> g.geometries
      [] OTHER -> << >>

\* a container with items has been written and a prefix of its bytes that
\* holds its header and its count, and not all of its items, has been read
ItemCutOff ==
    /\ pc = "read"
    /\ origin = "prefix"
    /\ LET c == ConcreteOf(value[1].T, value[1].v)
       IN  /\ ItemsOf(c.T, c.g) # << >>
           /\ Len(raw.buf) >= HeaderSize(c.g) + 4

\* C19: a read of a container in which the read of an item fails returns the
\* error of that item and no container, and reads nothing after the point of
\* the failure: when an item of an inline or typed-element container, at any
\* depth, is cut off, read_ewkb returns the stream error and stops where the
\* stream ran out; when the header of the first element of a collection has an
\* unsupported kind, read_ewkb returns that error with the reader right after
\* that header, the rest of that element and the elements after it unread; and
\* no read of a container that fails returns a value
FailingItemAborts ==
    /\ (pc = "read" /\ target[1].T # "P" /\ ~result[1].ok) =>
           /\ result[1].val = None
           /\ result[1].err \in {Some(ErrIo), Some(ErrUnsupported)}
    /\ ItemCutOff =>
           /\ ~result[1].ok
           /\ result[1].err = Some(ErrIo)
           /\ result[1].val = None
           /\ Remaining(raw) < 8
    /\ (/\ pc = "read"
        /\ origin = "wire"
        /\ CollectionElementRead
        /\ KindAt(raw.buf, HeaderEnd(raw.buf, 0) + 4) \notin 1..7
        /\ Len(raw.buf) >= HeaderEnd(raw.buf, HeaderEnd(raw.buf, 0) + 4)) =>
           /\ ~result[1].ok
           /\ result[1].err = Some(ErrUnsupported)
           /\ result[1].val = None
           /\ Remaining(raw) = Len(raw.buf) - HeaderEnd(raw.buf, HeaderEnd(raw.buf, 0) + 4)

\* the bytes written for a MultiPolygonT of MaxItems polygons have been read
\* up to a cut inside the last polygon, the first one being whole
FailingItemAbortsWitness ==
    /\ ItemCutOff
    /\ target[1].T = "MultiPolygonT"
    /\ Len(value[1].v.polygons) = MaxItems
    /\ Len(raw.buf) > HeaderSize(value[1].v) + 4 + 5
                      + BodySize("PolygonT", value[1].P, value[1].v.polygons[1])
    /\ ~result[1].ok

\* C20: the count of a container is not checked against the stream: the bytes
\* of a container with a count above the number of items that follow it are
\* read until the stream runs out, and read_ewkb returns the stream error, the
\* one a cut-off stream gives, and no value; the reader is then at the end of
\* the stream, every item on the wire having been read
OverstatedCountFails ==
    (pc = "read" /\ origin = "overcount") =>
        /\ ~result[1].ok
        /\ result[1].err = Some(ErrIo)
        /\ result[1].val = None
        /\ Remaining(raw) = 0
        /\ Len(raw.buf) = Len(out.buf)

\* the bytes of a PolygonT of MaxItems rings have been read as PolygonT under a
\* count of MaxItems + 1
OverstatedCountWitness ==
    /\ pc = "read"
    /\ origin = "overcount"
    /\ target[1].T = "PolygonT"
    /\ Len(value[1].v.rings) = MaxItems
    /\ raw.buf = Overstated(out.buf, 1)
    /\ WireCount(raw.buf) = MaxItems + 1
    /\ ~result[1].ok

\* the name of the type T with points P
TargetName(T, P) == IF T = "P" THEN P ELSE T

\* C21: from_sql of a point type, a container type, GeometryT or
\* GeometryCollectionT returns Ok(v) exactly when read_ewkb of the same bytes
\* returns Ok(v), and otherwise an error whose message is "cannot convert",
\* the SQL type, "to", the name of the target type; it returns no value with
\* an error
FromSqlNamesTarget ==
    pc = "converted" =>
        LET t == target[1]
            res == read_ewkb(t.T, t.P, Reader(raw.buf))
        IN  /\ result[1].ok = res.ok
            /\ res.ok => result[1].val = Some(res.val)
            /\ ~res.ok =>
                   /\ result[1].val = None
                   /\ result[1].err =
                          Some(<<"cannot convert", t.ty, "to", TargetName(t.T, t.P)>>)

OtherOrderElementsRead ==
    /\ WholeStreamRead
    /\ raw.buf \in MultiInputs \cup CollectionInputs
    /\ WireCount(raw.buf) >= 1
    /\ KindAt(raw.buf, HeaderEnd(raw.buf, 0) + 4) \in 1..7
    /\ ElementOrder(raw.buf) # raw.buf[1]

\* C23: the count of a MultiPoint, MultiLineString, MultiPolygon or
\* GeometryCollection is read in the byte order of the container, and the
\* type id, the srid and the body of each element, with the points and rings
\* inside it, in the byte order of the element's own order byte: a container
\* whose elements are big-endian and little-endian in turn, or are all under
\* another order byte than the container, is read whole to the value that the
\* same container all in little-endian is read to
MixedOrderDecoded ==
    /\ (/\ pc = "read"
        /\ origin = "mixed"
        /\ target[1].T \in {NaturalType(raw.buf), "GeometryT"}) =>
           LET le == read_ewkb(target[1].T, target[1].P, Reader(Rewire(raw.buf, 1, 1)))
           IN  /\ Rewire(raw.buf, 1, 1) # raw.buf
               /\ Len(Rewire(raw.buf, 1, 1)) = Len(raw.buf)
               /\ result[1].ok /\ le.ok
               /\ Decoded = le.val
               /\ Remaining(raw) = 0
    /\ OtherOrderElementsRead =>
           LET le == read_ewkb(target[1].T, target[1].P, Reader(Rewire(raw.buf, 1, 1)))
           IN  /\ result[1].ok /\ le.ok
               /\ Decoded = le.val
               /\ Remaining(raw) = 0

\* a big-endian GeometryCollection of MaxItems elements, the first a
\* little-endian MultiLineString and the second big-endian, has been read
MixedOrderDecodedWitness ==
    /\ pc = "read"
    /\ origin = "mixed"
    /\ target[1].T = "GeometryCollectionT"
    /\ raw.buf[1] = 0
    /\ raw.buf[HeaderEnd(raw.buf, 0) + 5] = 1
    /\ result[1].ok
    /\ Len(Decoded.geometries) = MaxItems
    /\ Decoded.geometries[1].variant = "MultiLineString"
    /\ Remaining(raw) = 0

\* C24: when a write to the sink fails during write_ewkb, the write of the
\* srid included, write_ewkb returns Err and makes no write after the one that
\* failed
WriteFailureReturned ==
    (pc = "sunk" /\ out.failed > 0) =>
        /\ wres = Some(FALSE)
        /\ out.failed = 1
        /\ out.fail # {} => out.calls \in out.fail

\* the LineString l with the srid s, its points too
LineWith(l, s) ==
    LineStringT([i \in DOMAIN l.points |-> [l.points[i] EXCEPT !.srid = s]], s)

\* the Polygon g with the srid s, its rings and their points too
PolygonWith(g, s) == PolygonT([i \in DOMAIN g.rings |-> LineWith(g.rings[i], s)], s)

\* the container v of type T, its points and rings with the srid of v, its
\* elements, and what is inside them, without an srid
Normalised(T, v) ==
    CASE T = "LineStringT" -> LineWith(v, v.srid)
      [] T = "PolygonT" -> PolygonWith(v, v.srid)
      [] T = "MultiPointT" ->
             MultiPointT([i \in DOMAIN v.points |-> [v.points[i] EXCEPT !.srid = None]], v.srid)
      [] T = "MultiLineStringT" ->
             MultiLineStringT([i \in DOMAIN v.lines |-> LineWith(v.lines[i], None)], v.srid)
      [] T = "MultiPolygonT" ->
             MultiPolygonT([i \in DOMAIN v.polygons |-> PolygonWith(v.polygons[i], None)],
                           v.srid)

\* the bytes written for a LineStringT, PolygonT, MultiPointT, MultiLineStringT
\* or MultiPolygonT value have been read as the type of the value
ContainerReadBack ==
    /\ pc = "read"
    /\ origin \in {"value", "decoded"}
    /\ target[1] = [T |-> value[1].T, P |-> value[1].P]
    /\ value[1].T \in InlineContainers \cup MultiTypes

\* C25: the bytes written for a LineStringT, PolygonT, MultiPointT,
\* MultiLineStringT or MultiPolygonT value v are read back whole to the value w
\* that has the items of v in order with their coordinates and the srid of v,
\* the points and rings of a LineString or Polygon with the srid of v and the
\* elements of a Multi type with none; w is v exactly when the items of v have
\* those srids already; and w is such a value, so that the bytes written for
\* w are read back to w
RoundTripNormalises ==
    ContainerReadBack =>
        /\ result[1].ok
        /\ Remaining(raw) = 0
        /\ raw.buf = out.buf
        /\ Decoded = Normalised(value[1].T, value[1].v)
        /\ Normalised(value[1].T, Decoded) = Decoded
        /\ Decoded = value[1].v <=> value[1].v = Normalised(value[1].T, value[1].v)

\* a PolygonT with an srid whose rings have another has been read back, and
\* not as it was
RoundTripNormalisesWitness ==
    /\ ContainerReadBack
    /\ origin = "value"
    /\ value[1].T = "PolygonT"
    /\ Len(value[1].v.rings) = MaxItems
    /\ value[1].v.srid = Some(4326)
    /\ value[1].v.rings[1].srid = Some(3857)
    /\ result[1].ok
    /\ Decoded # value[1].v
    /\ Decoded.rings[1].srid = Some(4326)

\* a MultiPolygonT read back from its bytes has been written and read back
\* again
RoundTripAgainWitness ==
    /\ ContainerReadBack
    /\ origin = "decoded"
    /\ value[1].T = "MultiPolygonT"
    /\ Len(value[1].v.polygons) = MaxItems
    /\ value[1].v = Normalised("MultiPolygonT", value[1].v)
    /\ result[1].ok
    /\ Decoded = value[1].v

\* the result of T::<P>::read_ewkb on the bytes written for g alone
ReadAlone(T, g) == read_ewkb(T, g.P, Reader(Encoded(g)))

\* the first geometry of a stream of several has been read as its type or as
\* GeometryT
FirstOfStreamRead ==
    /\ pc = "read"
    /\ origin = "concat"
    /\ target[1].T \in {value[1].T, "GeometryT"}

\* C26: a read_ewkb that succeeds takes the bytes of one geometry and no
\* more: on a stream that holds the bytes written for v1 and then the bytes
\* written for v2, or bytes that are no geometry, the first read_ewkb returns
\* what it returns on the bytes of v1 alone, which for a container is v1
\* normalised, and leaves the reader at the first byte after them; the second
\* returns what it returns on the bytes of v2 alone and leaves the stream empty
OneGeometryConsumed ==
    /\ FirstOfStreamRead =>
           LET alone == ReadAlone(target[1].T, value[1])
           IN  /\ result[1].ok /\ alone.ok
               /\ Decoded = alone.val
               /\ raw.pos = Len(Encoded(value[1]))
               /\ Remaining(raw) > 0
               /\ target[1].T \in InlineContainers \cup MultiTypes =>
                      Decoded = Normalised(value[1].T, value[1].v)
               /\ target[1].T = "P" => Decoded = value[1].v
    /\ pc = "read_next" =>
           LET alone == ReadAlone(target[1].T, value[2])
           IN  /\ result[1].ok /\ alone.ok
               /\ Decoded = alone.val
               /\ raw.buf = Encoded(value[1]) \o Encoded(value[2])
               /\ Remaining(raw) = 0
               /\ target[1].T \in InlineContainers \cup MultiTypes =>
                      Decoded = Normalised(value[2].T, value[2].v)
               /\ target[1].T = "P" => Decoded = value[2].v

\* a MultiPolygonT of InnerItems polygons has been read after an empty
\* GeometryCollectionT with an srid, from one stream
OneGeometryConsumedWitness ==
    /\ pc = "read_next"
    /\ value[1].T = "GeometryCollectionT"
    /\ value[1].v.geometries = << >>
    /\ value[1].v.srid # None
    /\ target[1].T = "MultiPolygonT"
    /\ result[1].ok
    /\ Len(Decoded.polygons) = InnerItems
    /\ Remaining(raw) = 0

(* ---- decoding terminates ---- *)

\* the decode the steps of which were followed, made in one call
WholeDecode == read_ewkb(target[1].T, target[1].P, Reader(raw.buf))

\* the decode followed step by step returns what read_ewkb returns
StepsAreReadEwkb ==
    (pc = "done" /\ origin = "loop") =>
        /\ result[1].ok = WholeDecode.ok
        /\ result[1].rest = WholeDecode.rest
        /\ ~result[1].ok => result[1].err = WholeDecode.err

\* the loop iterations begun and the loops entered number at most the bytes
\* of the input
DecodeBounded ==
    origin = "loop" =>
        /\ loops.iters <= Len(raw.buf)
        /\ Len(loops.frames) <= Len(raw.buf)
        /\ StepsAreReadEwkb

\* a loop iteration consumes at least one byte or ends the decode with an error
IterationConsumes ==
    loops'.iters = loops.iters + 1 =>
        \/ raw'.pos > raw.pos
        \/ pc' = "done" /\ ~result'[1].ok

\* C27: decoding terminates on every finite input. Whatever counts (up to
\* 2^32 - 1) and nesting the input declares, every loop iteration consumes at
\* least one byte or returns an error, the iterations begun and the depth of
\* the loops stay within the length of the input, and read_ewkb returns Ok or
\* Err.
DecodingTerminates ==
    /\ []DecodeBounded
    /\ [][IterationConsumes]_vars
    /\ <>(pc = "done")

\* a collection inside a collection, both declaring 2^32 - 1 elements, was
\* decoded until its bytes ran out
DecodingTerminatesWitness ==
    /\ pc = "done"
    /\ origin = "loop"
    /\ ~result[1].ok
    /\ \E i \in 1..(Len(raw.buf) - 3) : SubSeq(raw.buf, i, i + 3) = MaxCount
    /\ Len(loops.frames) > 1
    /\ loops.iters > 1

(* ---- the concrete types do not look at the kind ---- *)

\* the kind bytes tried in the place of those of a stream
KindBytes == {3, 255}

\* where the element headers of a Multi* container start: the positions at
\* which the reads of its items of type I begin
RECURSIVE ElementStarts(_, _, _, _)
ElementStarts(I, P, r, left) ==
    IF WordIsZero(left) \/ Remaining(r) < 5 THEN {}
    ELSE LET e == read_ewkb(I, P, r)
         IN  {r.pos} \cup (IF e.ok THEN ElementStarts(I, P, e.rest, WordDec(left)) ELSE {})

\* the index of the kind byte of the header that starts after `at` bytes
KindIndex(bytes, at) == IF bytes[at + 1] = 0 THEN at + 5 ELSE at + 2

\* the bytes read as type T with k in the place of the kind byte of the
\* header and, for MultiPointT, MultiLineStringT and MultiPolygonT, of the
\* kind byte of every element header
Rekinded(T, P, bytes, k) ==
    LET h == read_header(Reader(bytes))
        size == IF h.ok THEN read_u32(h.rest, h.val.is_be) ELSE h
        starts == {0} \cup (IF T \in MultiTypes /\ size.ok
                            THEN ElementStarts(loop_item(T), P, size.rest, size.val)
                            ELSE {})
        kinds == {KindIndex(bytes, at) : at \in {s \in starts : Len(bytes) >= s + 5}}
    IN  [i \in 1..Len(bytes) |-> IF i \in kinds THEN k ELSE bytes[i]]

\* the stream that was read differs from its rekinded form
KindsDiffer(k) == Rekinded(target[1].T, target[1].P, raw.buf, k) # raw.buf

\* C28: read_ewkb on a concrete type does not inspect the kind in the low byte
\* of its own type id, nor of the element headers of MultiPointT,
\* MultiLineStringT and MultiPolygonT: the same bytes with other kind bytes in
\* those places give the same value or the same error, and the same number of
\* bytes consumed.
KindNotInspected ==
    (pc = "read" /\ target[1].T \in ConcreteTypes) =>
        \A k \in KindBytes :
            LET other == read_ewkb(target[1].T, target[1].P,
                                   Reader(Rekinded(target[1].T, target[1].P, raw.buf, k)))
            IN  /\ other.ok = result[1].ok
                /\ other.ok => Some(other.val) = result[1].val
                /\ ~other.ok => Some(other.err) = result[1].err
                /\ other.rest.pos = raw.pos

\* a stream whose header has the kind of a GeometryCollection and whose first
\* element header has a kind no geometry has was read as a MultiPointT of
\* MaxItems points
KindNotInspectedWitness ==
    /\ pc = "read"
    /\ target[1].T = "MultiPointT"
    /\ result[1].ok
    /\ Len(Decoded.points) = MaxItems
    /\ KindAt(raw.buf, 0) = 7
    /\ \E at \in 9..13 : KindAt(raw.buf, at) \in BadKinds
    /\ \A k \in KindBytes : KindsDiffer(k)

(* ---- the panicking body reader of GeometryT is never reached ---- *)

\* a call of read_ewkb or of from_sql has returned
Returned == pc \in {"read", "read_next", "converted"}

\* C29: no decode started through read_ewkb, on any type and any bytes,
\* reaches GeometryT::read_ewkb_body: GeometryT::read_ewkb and the element
\* loop of GeometryCollectionT dispatch every kind to the body reader of a
\* concrete type or return an error, so that read_ewkb and from_sql return Ok
\* or Err and do not panic.
PanickingBodyNotReached ==
    Returned =>
        /\ result[1].ok <=> result[1].val # None
        /\ ~result[1].ok =>
               IF pc = "converted"
               THEN result[1].err[1][1] # Panic /\ result[1].err[1][1] = "cannot convert"
               ELSE result[1].err # Some(Panic)
                    /\ result[1].err \in {Some(ErrIo), Some(ErrUnsupported)}

\* a GeometryT was read from a collection whose first element is itself a
\* collection: both matches dispatched the kind 0x07
PanickingBodyNotReachedWitness ==
    /\ pc = "read"
    /\ target[1].T = "GeometryT"
    /\ result[1].ok
    /\ Decoded.variant = "GeometryCollection"
    /\ Len(Decoded.geom.geometries) = MaxItems
    /\ Decoded.geom.geometries[1].variant = "GeometryCollection"

(* ---- a coordinate the payload lacks is read as 0.0 ---- *)

\* the eight bytes that follow the first `at` of a stream, most significant
\* first under the order byte of the stream
WireF64(bytes, at) ==
    IF bytes[1] = 0 THEN SubSeq(bytes, at + 1, at + 8)
    ELSE Reverse(SubSeq(bytes, at + 1, at + 8))

\* the bytes of a point payload with the header of the stream: the header,
\* x, y and the coordinates the flags announce
PointPayloadLen(bytes) ==
    HeaderEnd(bytes, 0) + 8 * (2 + (IF WireZ(bytes) THEN 1 ELSE 0)
                                 + (IF WireM(bytes) THEN 1 ELSE 0))

\* a stream that holds a whole point payload was read as a point type
PointPayloadRead ==
    /\ pc = "read"
    /\ target[1].T = "P"
    /\ Len(raw.buf) >= 5
    /\ Len(raw.buf) >= PointPayloadLen(raw.buf)

\* C30: a payload that lacks a coordinate the point type has is read and the
\* coordinate is 0.0: z when the header has no Z flag and the type is PointZ
\* or PointZM, m when it has no M flag and the type is PointM or PointZM; x,
\* y and the srid are those on the wire, and the reader has consumed the
\* header and exactly the coordinates the flags announce.
MissingCoordinateZero ==
    PointPayloadRead =>
        /\ result[1].ok
        /\ Decoded.x = WireF64(raw.buf, HeaderEnd(raw.buf, 0))
        /\ Decoded.y = WireF64(raw.buf, HeaderEnd(raw.buf, 0) + 8)
        /\ Decoded.srid = WireSrid(raw.buf)
        /\ (target[1].P \in {"PointZ", "PointZM"} /\ ~WireZ(raw.buf)) => Decoded.z = F64Zero
        /\ (target[1].P \in {"PointM", "PointZM"} /\ ~WireM(raw.buf)) => Decoded.m = F64Zero
        /\ raw.pos = PointPayloadLen(raw.buf)

\* a payload of x and y with an srid has been read as a PointZM
MissingCoordinateZeroWitness ==
    /\ PointPayloadRead
    /\ target[1].P = "PointZM"
    /\ ~WireZ(raw.buf) /\ ~WireM(raw.buf)
    /\ WireSrid(raw.buf) = Some(4326)
    /\ Remaining(raw) = 0
    /\ Decoded = [x |-> F(0), y |-> F(1), z |-> F64Zero, m |-> F64Zero, srid |-> Some(4326)]

====
